---- MODULE Spec2Model ----
(***************************************************************************)
(* MAIN_Backend/database_service (tokens.go, db.go) run against PostgreSQL *)
(* at its default isolation level, READ COMMITTED.                         *)
(*                                                                         *)
(* The store is the committed content of the tables users, login_tokens    *)
(* and applications.  Every call runs on its own connection: it is a       *)
(* process whose position is pc[p].  A transaction sees committed rows     *)
(* only, keeps its own writes pending until Commit, and holds the row      *)
(* locks it took (SELECT ... FOR UPDATE, UPDATE, INSERT ... ON CONFLICT)   *)
(* until it commits or rolls back.  now() is the start time of the         *)
(* transaction.                                                            *)
(*                                                                         *)
(* ListenAppEvents is one call and the goroutine it starts, at position    *)
(* lpc, with the two channels it hands to its consumer.                    *)
(*                                                                         *)
(* The handlers of main.go run one goroutine per request: they check the   *)
(* body, call database_service and answer from what the calls return.      *)
(***************************************************************************)
EXTENDS Integers, Sequences, FiniteSets, TLC

\* ---------------------------------------------------------------- bounds
NumProcs  == 2      \* concurrently running calls (connections)
MaxCalls  == 3      \* calls started in one behaviour
MaxTokens == 3      \* rows ever inserted into login_tokens
MaxClock  == 1      \* last value of the clock
MaxNotifs == 3      \* notifications sent on channel app_events
MaxRequests == 3    \* HTTP requests accepted in one behaviour
MaxLapses == 2      \* elapsed waits counted before the first notification

\* ------------------------------------------------------ program constants
TTL == 1            \* interval '15 minutes', in clock units
ErrsCap == 1        \* errs := make(chan error, 1)

Procs  == 1..NumProcs
Idents == {42, 43}              \* Discord snowflakes presented by callers
Names  == {"ann", "bob"}        \* display names presented by callers
NULL   == "null"                \* SQL NULL / Go nil
NoTok  == 0                     \* a uuid that no row carries
NoUser == 0                     \* no user id
NoAge  == 0 - 1000              \* NULL in the smallint column age, a nil *int16

VARIABLES
    clock,      \* the store's wall clock
    users,      \* table users: sequence of rows, users.id is the index
    tokens,     \* table login_tokens: sequence of rows, id is the index
    pc,         \* position of each call
    op,         \* the call each process runs: kind and arguments
    res,        \* what the last call of the process returned
    retUser,    \* the User value returned (or being built)
    retTok,     \* the login_tokens row id of the LoginToken returned
    txnow,      \* now() of the open transaction of each process
    uid,        \* local variable user.ID / userID of each call
    held,       \* row ids of login_tokens each open transaction has locked
    rev,        \* pending UPDATE ... SET revoked = true of each transaction
    scan,       \* rows of the running UPDATE's snapshot still to visit
    ins,        \* pending INSERT INTO login_tokens of each transaction
    ukey,       \* the users row each open transaction has upserted and how
    calls,      \* number of calls started
    \* history, read by the properties only
    exOk,       \* per token value: ExchangeToken calls that returned success
    coOk,       \* per token value: ConsumeToken calls that returned success
    revokedBy,  \* per row id: the operation whose commit revoked it
    mintedFrom, \* per row id: the value presented to the call that made it
    atBegin,    \* state of the presented value when the transaction began
    overlap,    \* the call ran while another call on the same user ran
    wrote,      \* the call has committed a change of the store
    \* ListenAppEvents
    lpc,        \* position of the call, then of its goroutine
    lret,       \* what ListenAppEvents returned to its caller
    ctxDone,    \* the caller has cancelled ctx
    conn,       \* the pooled connection: "none", "held" or "released"
    listening,  \* the session of conn is registered on app_events
    queue,      \* notifications the server has sent to conn, not yet read
    notif,      \* local variable notif.Payload of the goroutine
    errs,       \* content of the buffered channel errs
    errsClosed, \* close(errs) has run
    eventsClosed, \* close(events) has run
    rxEvents,   \* the consumer receives from events
    rxErrs,     \* the consumer receives from errs
    delivered,  \* values the consumer received from events, in order
    taken,      \* values the consumer received from errs, in order
    sawErrsClosed, \* the consumer has observed errs closed
    \* history of the listener, read by the properties only
    sent,       \* number of notifications sent on app_events
    notes,      \* per notification sent: the committed change behind it
    received,   \* payloads WaitForNotification returned, in order
    emitted,    \* completed channel sends of the loop body, in order
    releases,   \* number of conn.Release() calls
    cause,      \* why the loop was left: "cancel" or "error"
    misuse,     \* raw was used after conn.Release()
    lapses,     \* bounded waits that elapsed before the first notification
                \* was read
    \* applications
    apps,       \* table applications: sequence of rows, id is the index
    arg,        \* arguments of the call on applications each process runs
    akey,       \* the applications row each open transaction has written
    retApp,     \* the Application value returned
    \* history, read by the properties only
    undone,     \* the call failed with a revocation pending, now rolled back
    \* the HTTP handlers of main.go
    req,        \* the request each handler goroutine serves
    http,       \* the status it answered, 0 while the request is served
    requests,   \* number of requests accepted by the server
    submitter,  \* local variable user of the /submit-application handler
    authorized  \* history: the calls made on behalf of each token value

tvars == <<clock, users, tokens, pc, op, res, retUser, retTok, txnow, uid,
           held, rev, scan, ins, ukey, calls,
           exOk, coOk, revokedBy, mintedFrom, atBegin, overlap, wrote>>

lvars == <<lpc, lret, ctxDone, conn, listening, queue, notif, errs,
           errsClosed, eventsClosed, rxEvents, rxErrs, delivered, taken,
           sawErrsClosed, sent, notes, received, emitted, releases,
           cause, misuse, lapses>>

avars == <<apps, arg, akey, retApp>>

\* what the token protocol leaves alone
hvars == <<req, http, requests, submitter, authorized>>

ext == <<lvars, avars, undone, hvars>>

vars == <<tvars, ext>>

txvars == <<txnow, uid, held, rev, scan, ins, ukey>>
hist == <<exOk, coOk, revokedBy, mintedFrom, atBegin, overlap, wrote>>

NoOp    == [kind |-> "none", ident |-> 0, name |-> NULL, tok |-> NoTok, owner |-> 0]
NoRet   == [id |-> NoUser, discord_user_id |-> 0, discord_username |-> NULL,
            minecraft_name |-> NULL, age |-> NoAge]
NoIns   == [user_id |-> NoUser, expires_at |-> 0]
NoKey   == [ident |-> 0, how |-> "none"]
NoArg   == [user_id |-> NoUser, answers |-> NULL, status |-> NULL, id |-> 0]
NoAppKey == [how |-> "none", row |-> 0, user_id |-> NoUser]
NoReq   == [route |-> "none", method |-> "none", body |-> "none",
            token |-> NoTok, age |-> 0, minecraft_username |-> "",
            discord_id |-> <<>>, username |-> ""]
NoApp   == [id |-> 0, user_id |-> NoUser, answers |-> NULL, status |-> NULL]

\* ------------------------------------------------ texts sent on app_events
\* A payload is the text of a notification.  The trigger function sends a
\* JSON object with the keys of AppEvent; any session can send any text.
Payload(syntax, at, table, action, row, st) ==
    [syntax |-> syntax, at |-> at, table |-> table, action |-> action,
     row_id |-> row, status |-> st]

NoPayload == Payload("none", NULL, NULL, NULL, 0, NULL)
\* text that is not JSON
Garbage   == Payload("text", NULL, NULL, NULL, 0, NULL)
\* a JSON object whose "at" is not an RFC 3339 time
BadAt     == Payload("object", "yesterday", "users", "UPDATE", 1, NULL)
\* the object the trigger sends for a row of users
UserDoc(row) == Payload("object", "rfc3339", "users", "UPDATE", row, NULL)

\* the document notify_app_event() builds for a row of users
UserEvent(action, row) ==
    Payload("object", "rfc3339", "users", action, row, NULL)

\* the object the trigger sends for a row of applications
AppDoc(action, row, st) ==
    Payload("object", "rfc3339", "applications", action, row, st)

\* a notification that no call of this program caused
NoChange == [by |-> "other", row |-> 0, status |-> NULL]

\* json.Unmarshal([]byte(notif.Payload), &ev) returns nil
Decodes(pl) == pl.syntax = "object" /\ pl.at \in {"rfc3339", NULL}

\* the AppEvent json.Unmarshal fills in: keys it finds, zero values otherwise
Unmarshal(pl) ==
    [Table |-> pl.table, Action |-> pl.action, RowID |-> pl.row_id,
     Status |-> pl.status, At |-> IF pl.at = NULL THEN "zero" ELSE pl.at]

\* ------------------------------------------------------------- the tables
TokIds  == 1..Len(tokens)
UserIds == 1..Len(users)

\* WHERE discord_user_id = $1 (UNIQUE)
UserRowsOf(ident) == {i \in UserIds : users[i].discord_user_id = ident}

\* WHERE token = $1
RowsOf(v) == {i \in TokIds : tokens[i].token = v}

\* revoked = false AND expires_at > now()
IsActive(t, now) == t.revoked = FALSE /\ t.expires_at > now

\* WHERE token = $1 AND revoked = false AND expires_at > now()
Matching(v, now) == {i \in RowsOf(v) : IsActive(tokens[i], now)}

\* WHERE user_id = $1 AND revoked = false AND expires_at > now()
ActiveOfUser(u, now) ==
    {i \in TokIds : tokens[i].user_id = u /\ IsActive(tokens[i], now)}

\* a row lock is granted when no other open transaction holds the row
LockFree(p, i) == \A q \in Procs \ {p} : i \notin held[q]

InFlight(p) == pc[p] \notin {"idle", "done"}

Init ==
    /\ clock = 0
    /\ users = <<>>
    /\ tokens = <<>>
    /\ pc = [p \in Procs |-> "idle"]
    /\ op = [p \in Procs |-> NoOp]
    /\ res = [p \in Procs |-> "none"]
    /\ retUser = [p \in Procs |-> NoRet]
    /\ retTok = [p \in Procs |-> 0]
    /\ txnow = [p \in Procs |-> 0]
    /\ uid = [p \in Procs |-> NoUser]
    /\ held = [p \in Procs |-> {}]
    /\ rev = [p \in Procs |-> {}]
    /\ scan = [p \in Procs |-> {}]
    /\ ins = [p \in Procs |-> NoIns]
    /\ ukey = [p \in Procs |-> NoKey]
    /\ calls = 0
    /\ exOk = [v \in 1..MaxTokens |-> 0]
    /\ coOk = [v \in 1..MaxTokens |-> 0]
    /\ revokedBy = [i \in 1..MaxTokens |-> "none"]
    /\ mintedFrom = [i \in 1..MaxTokens |-> NoTok]
    /\ atBegin = [p \in Procs |-> "none"]
    /\ overlap = [p \in Procs |-> FALSE]
    /\ wrote = [p \in Procs |-> FALSE]
    /\ lpc = "l_idle"
    /\ lret = "none"
    /\ ctxDone = FALSE
    /\ conn = "none"
    /\ listening = FALSE
    /\ queue = <<>>
    /\ notif = NoPayload
    /\ errs = <<>>
    /\ errsClosed = FALSE
    /\ eventsClosed = FALSE
    /\ rxEvents = TRUE
    /\ rxErrs = TRUE
    /\ delivered = <<>>
    /\ taken = <<>>
    /\ sawErrsClosed = FALSE
    /\ sent = 0
    /\ notes = <<>>
    /\ received = <<>>
    /\ emitted = <<>>
    /\ releases = 0
    /\ cause = "none"
    /\ misuse = FALSE
    /\ lapses = 0
    /\ apps = <<>>
    /\ arg = [p \in Procs |-> NoArg]
    /\ akey = [p \in Procs |-> NoAppKey]
    /\ retApp = [p \in Procs |-> NoApp]
    /\ undone = [p \in Procs |-> FALSE]
    /\ req = [p \in Procs |-> NoReq]
    /\ http = [p \in Procs |-> 0]
    /\ requests = 0
    /\ submitter = [p \in Procs |-> NoRet]
    /\ authorized = [v \in 0..MaxTokens |-> [profile |-> 0, apply |-> 0]]

Tick ==
    /\ clock < MaxClock
    /\ clock' = clock + 1
    /\ UNCHANGED <<users, tokens, pc, op, res, retUser, retTok, txvars, calls, hist>>
    /\ UNCHANGED ext

\* ------------------------------------------------------------ the callers
\* the call o of process p is entered: its locals are fresh
EnterCall(p, o) ==
    /\ pc[p] \in {"idle", "done"}
    /\ op' = [op EXCEPT ![p] = o]
    /\ pc' = [pc EXCEPT ![p] = CASE o.kind = "rotate"   -> "u_begin"
                                 [] o.kind = "exchange" -> "x_begin"
                                 [] o.kind = "consume"  -> "c_begin"
                                 [] o.kind = "profile"  -> "pf_begin"]
    /\ res' = [res EXCEPT ![p] = "none"]
    /\ retUser' = [retUser EXCEPT ![p] = NoRet]
    /\ retTok' = [retTok EXCEPT ![p] = 0]
    /\ uid' = [uid EXCEPT ![p] = NoUser]
    /\ atBegin' = [atBegin EXCEPT ![p] = "none"]
    /\ wrote' = [wrote EXCEPT ![p] = FALSE]
    /\ LET busy(q) == q # p /\ InFlight(q) /\ o.owner # 0 /\ op[q].owner = o.owner
       IN  overlap' = [q \in Procs |->
                         IF q = p THEN \E r \in Procs : busy(r)
                         ELSE overlap[q] \/ busy(q)]
    /\ UNCHANGED <<clock, users, tokens, txnow, held, rev, scan, ins, ukey,
                   exOk, coOk, revokedBy, mintedFrom>>
    /\ undone' = [undone EXCEPT ![p] = FALSE]
    /\ UNCHANGED <<lvars, avars>>

\* A caller starts a call of database_service with its arguments.  Token
\* values presented are a uuid no row carries, or the value of a row.
StartCall(p, o) ==
    /\ calls < MaxCalls
    /\ calls' = calls + 1
    /\ EnterCall(p, o)
    /\ UNCHANGED hvars

\* rows the calls in flight may still insert
Minting == {q \in Procs : InFlight(q) /\ op[q].kind \in {"rotate", "exchange"}}

OwnerOf(v) ==
    IF RowsOf(v) = {} THEN 0
    ELSE users[tokens[CHOOSE i \in RowsOf(v) : TRUE].user_id].discord_user_id

\* CreateOrRotateLoginToken(ctx, actor, discordUserID, discordUsername)
RotateCall(d, n) ==
    [kind |-> "rotate", ident |-> d, name |-> n, tok |-> NoTok, owner |-> d]

\* main.go /create-login-token
StartRotate(p) ==
    /\ Len(tokens) + Cardinality(Minting) < MaxTokens
    /\ \E d \in Idents, n \in Names : StartCall(p, RotateCall(d, n))

\* main.go /exchange-token
StartExchange(p) ==
    /\ Len(tokens) + Cardinality(Minting) < MaxTokens
    /\ \E v \in {NoTok} \cup {tokens[i].token : i \in TokIds} :
         StartCall(p, [kind |-> "exchange", ident |-> 0, name |-> NULL,
                       tok |-> v, owner |-> OwnerOf(v)])

\* main.go /submit-application
StartConsume(p) ==
    \E v \in {NoTok} \cup {tokens[i].token : i \in TokIds} :
        StartCall(p, [kind |-> "consume", ident |-> 0, name |-> NULL,
                      tok |-> v, owner |-> OwnerOf(v)])

\* ------------------------------------------------- transaction machinery
\* pgx: BeginTx on a pooled connection, then withActor (set_config); both
\* succeed here, their failure is StoreError at the same position.
Begin(p, next) ==
    /\ pc' = [pc EXCEPT ![p] = next]
    /\ txnow' = [txnow EXCEPT ![p] = clock]

\* the server delivers the text pl, sent on app_events by a committed
\* transaction, to the listening session
Deliver(pl, by) ==
    /\ sent' = sent + 1
    /\ queue' = Append(queue, pl)
    /\ notes' = Append(notes, by)

\* listener variables a commit leaves alone
lrest == <<lpc, lret, ctxDone, conn, listening, notif, errs, errsClosed,
           eventsClosed, rxEvents, rxErrs, delivered, taken, sawErrsClosed,
           received, emitted, releases, cause, misuse, lapses>>

\* pg_notify at commit: the text reaches the session that listens, if any
Publish(pl, by) ==
    IF listening THEN Deliver(pl, by) ELSE UNCHANGED <<sent, queue, notes>>

\* deferred tx.Rollback: pending writes are dropped, row locks released
Rollback(p) ==
    /\ held' = [held EXCEPT ![p] = {}]
    /\ rev' = [rev EXCEPT ![p] = {}]
    /\ scan' = [scan EXCEPT ![p] = {}]
    /\ ins' = [ins EXCEPT ![p] = NoIns]
    /\ ukey' = [ukey EXCEPT ![p] = NoKey]

\* faulty variant: revocation also moves the expiry of the row into the past
ApplyRevoke_Expire(tk, ids) ==
    [i \in DOMAIN tk |-> IF i \in ids
                         THEN [tk[i] EXCEPT !.revoked = TRUE, !.expires_at = 0]
                         ELSE tk[i]]

\* UPDATE login_tokens SET revoked = true, applied to the rows ids
ApplyRevoke(tk, ids) ==
    [i \in DOMAIN tk |-> IF i \in ids THEN [tk[i] EXCEPT !.revoked = TRUE]
                                      ELSE tk[i]]

\* faulty variant: the replacement is inserted under the value that was presented
NewTokenValue_Reuse(p) ==
    IF op[p].kind = "exchange" THEN op[p].tok ELSE Len(tokens) + 1

\* uuid_generate_v4(): a value that no row of login_tokens carries
NewTokenValue(p) == Len(tokens) + 1

\* INSERT INTO login_tokens (user_id, token, added_at, expires_at)
\* VALUES ($1, uuid_generate_v4(), now(), now() + interval '15 minutes')
NewTokenRow(p, user) == [user_id |-> user, expires_at |-> txnow[p] + TTL]

\* tx.Commit of a transaction on login_tokens: its pending UPDATE and INSERT
\* become the committed rows
CommitTokens(p) ==
    LET revoked == ApplyRevoke(tokens, rev[p])
    IN  IF ins[p] = NoIns THEN revoked
        ELSE Append(revoked, [user_id    |-> ins[p].user_id,
                              token      |-> NewTokenValue(p),
                              expires_at |-> ins[p].expires_at,
                              revoked    |-> FALSE])

\* history of a commit: who revoked which row, what the new row replaced
CommitHistory(p) ==
    /\ revokedBy' = [i \in DOMAIN revokedBy |->
                       IF i \in rev[p] /\ i \in TokIds /\ ~tokens[i].revoked
                       THEN op[p].kind ELSE revokedBy[i]]
    /\ mintedFrom' = IF ins[p] = NoIns THEN mintedFrom
                     ELSE [mintedFrom EXCEPT ![Len(tokens) + 1] = op[p].tok]
    /\ wrote' = [wrote EXCEPT ![p] = wrote[p] \/ tokens' # tokens]

\* faulty variant: the failure of a later call of the request undoes the
\* revocation that the ConsumeToken of the request committed
RolledBack_WithConsume(p) ==
    IF op[p].kind \in {"profile", "apply"}
    THEN [i \in DOMAIN tokens |->
            IF tokens[i].token = req[p].token
            THEN [tokens[i] EXCEPT !.revoked = FALSE] ELSE tokens[i]]
    ELSE tokens

\* faulty variant: the UPDATE that ran before the failure stays applied
RolledBack_KeepsRevoke(p) == ApplyRevoke(tokens, rev[p])

\* login_tokens after the deferred tx.Rollback of a call that returns an
\* error: the rows as they were committed, the pending UPDATE and INSERT gone
RolledBack(p) == tokens

\* any statement (begin, set_config, query, exec, commit) can fail: the store
\* is unavailable, the context's deadline has passed, a deadlock is broken.
\* The call returns that error and the deferred Rollback runs.
StoreError(p) ==
    /\ InFlight(p)
    /\ pc' = [pc EXCEPT ![p] = "done"]
    /\ res' = [res EXCEPT ![p] = "error"]
    /\ retUser' = [retUser EXCEPT ![p] = NoRet]
    /\ retTok' = [retTok EXCEPT ![p] = 0]
    /\ Rollback(p)
    /\ tokens' = RolledBack(p)
    /\ undone' = [undone EXCEPT ![p] = rev[p] # {}]
    /\ akey' = [akey EXCEPT ![p] = NoAppKey]
    /\ retApp' = [retApp EXCEPT ![p] = NoApp]
    /\ UNCHANGED <<clock, users, op, txnow, uid, calls, hist>>
    /\ UNCHANGED <<lvars, apps, arg, hvars>>

\* ------------------------------------------------------------ UpsertUser
\* db.go UpsertUser, called by CreateOrRotateLoginToken with
\* User{DiscordUserID, DiscordUsername}: MinecraftName and Age are nil.
UpsertBegin(p) ==
    /\ pc[p] = "u_begin"
    /\ Begin(p, "u_upsert")
    /\ UNCHANGED <<clock, users, tokens, op, res, retUser, retTok, uid,
                   held, rev, scan, ins, ukey, calls, hist>>
    /\ UNCHANGED ext

\* faulty variant: the statement does not wait for the open transaction
UpsertFree_NoWait(p, d) == TRUE

\* INSERT ... ON CONFLICT (discord_user_id) waits for an open transaction
\* that has inserted or updated the row of the same discord_user_id
UpsertFree(p, d) == \A q \in Procs \ {p} : ukey[q].ident # d

COALESCE(a, b) == IF a # NULL THEN a ELSE b


\* the User that row.Scan fills from the row id of the users table tbl
UserRecord(tbl, id) ==
    [id |-> id, discord_user_id |-> tbl[id].discord_user_id,
     discord_username |-> tbl[id].discord_username,
     minecraft_name |-> tbl[id].minecraft_name, age |-> tbl[id].age]

\* faulty variant: age = EXCLUDED.age
CoalesceAge_Excluded(a, b) == a

\* COALESCE on the smallint column age
CoalesceAge(a, b) == IF a # NoAge THEN a ELSE b

\* the statement finds the committed row of d, or none and inserts
UpsertHow(d) == IF UserRowsOf(d) = {} THEN "insert" ELSE "update"

\* the users table after INSERT (how = "insert") or after
\* ON CONFLICT DO UPDATE SET discord_username = EXCLUDED.discord_username,
\*   minecraft_name = COALESCE(EXCLUDED.minecraft_name, users.minecraft_name),
\*   age = COALESCE(EXCLUDED.age, users.age)
UpsertRows(how, d, n, mc, age) ==
    IF how = "insert"
    THEN Append(users, [discord_user_id |-> d, discord_username |-> n,
                        minecraft_name |-> mc, age |-> age])
    ELSE [i \in DOMAIN users |->
            IF i \in UserRowsOf(d)
            THEN [users[i] EXCEPT !.discord_username = n,
                                  !.minecraft_name = COALESCE(mc, @),
                                  !.age = CoalesceAge(age, @)]
            ELSE users[i]]

UpsertExec(p) ==
    /\ pc[p] = "u_upsert"
    /\ UpsertFree(p, op[p].ident)
    /\ ukey' = [ukey EXCEPT ![p] = [ident |-> op[p].ident,
                                    how |-> UpsertHow(op[p].ident)]]
    /\ pc' = [pc EXCEPT ![p] = "u_commit"]
    /\ UNCHANGED <<clock, users, tokens, op, res, retUser, retTok, txnow, uid,
                   held, rev, scan, ins, calls, hist>>
    /\ UNCHANGED ext

\* RETURNING id, ... ; tx.Commit; return out.  The statement names
\* minecraft_name, so the row trigger users_notify has queued its
\* notification, which is sent at commit.
UpsertCommit(p) ==
    /\ pc[p] = "u_commit"
    /\ users' = UpsertRows(ukey[p].how, op[p].ident, op[p].name, NULL, NoAge)
    /\ LET id == IF ukey[p].how = "insert" THEN Len(users) + 1
                 ELSE CHOOSE i \in UserRowsOf(op[p].ident) : TRUE
       IN  /\ uid' = [uid EXCEPT ![p] = id]
           /\ retUser' = [retUser EXCEPT ![p] = UserRecord(users', id)]
           /\ Publish(UserEvent(IF ukey[p].how = "insert" THEN "INSERT"
                                 ELSE "UPDATE", id),
                      [by |-> "upsert", row |-> id, status |-> NULL])
    /\ ukey' = [ukey EXCEPT ![p] = NoKey]
    /\ wrote' = [wrote EXCEPT ![p] = wrote[p] \/ users' # users]
    /\ pc' = [pc EXCEPT ![p] = "r_begin"]
    /\ UNCHANGED <<clock, tokens, op, res, retTok, txnow, held, rev, scan, ins,
                   calls, exOk, coOk, revokedBy, mintedFrom, atBegin, overlap>>
    /\ UNCHANGED <<lrest, avars, undone, hvars>>

\* ------------------------------------------- CreateOrRotateLoginToken
\* tokens.go:120-127, the second transaction of the call
RotateBegin(p) ==
    /\ pc[p] = "r_begin"
    /\ Begin(p, "r_update")
    /\ UNCHANGED <<clock, users, tokens, op, res, retUser, retTok, uid,
                   held, rev, scan, ins, ukey, calls, hist>>
    /\ UNCHANGED ext

\* UPDATE login_tokens SET revoked = true WHERE user_id = $1 AND
\* revoked = false AND expires_at > now(): the statement's snapshot is the
\* set of committed rows that match when the statement starts
\* faulty variant: the UPDATE matches no row
RotateSnapshot_NoRows(p) == {}

\* faulty variant: the UPDATE has no user_id = $1 in its WHERE clause
RotateSnapshot_AnyUser(p) == {i \in TokIds : IsActive(tokens[i], txnow[p])}

RotateSnapshot(p) == ActiveOfUser(uid[p], txnow[p])

RotateUpdate(p) ==
    /\ pc[p] = "r_update"
    /\ scan' = [scan EXCEPT ![p] = RotateSnapshot(p)]
    /\ pc' = [pc EXCEPT ![p] = IF RotateSnapshot(p) = {} THEN "r_insert"
                                                        ELSE "r_rows"]
    /\ UNCHANGED <<clock, users, tokens, op, res, retUser, retTok, txnow, uid,
                   held, rev, ins, ukey, calls, hist>>
    /\ UNCHANGED ext

\* the UPDATE visits a row of its snapshot: it waits for the row lock, then
\* re-checks the WHERE clause on the row's latest committed version and
\* updates the row only if it still matches
RotateUpdateRow(p) ==
    /\ pc[p] = "r_rows"
    /\ \E i \in scan[p] :
         /\ LockFree(p, i)
         /\ IF IsActive(tokens[i], txnow[p])
            THEN /\ held' = [held EXCEPT ![p] = @ \cup {i}]
                 /\ rev' = [rev EXCEPT ![p] = @ \cup {i}]
            ELSE UNCHANGED <<held, rev>>
         /\ scan' = [scan EXCEPT ![p] = @ \ {i}]
         /\ pc' = [pc EXCEPT ![p] = IF scan[p] = {i} THEN "r_insert" ELSE "r_rows"]
    /\ UNCHANGED <<clock, users, tokens, op, res, retUser, retTok, txnow, uid,
                   ins, ukey, calls, hist>>
    /\ UNCHANGED ext

RotateInsert(p) ==
    /\ pc[p] = "r_insert"
    /\ ins' = [ins EXCEPT ![p] = NewTokenRow(p, uid[p])]
    /\ pc' = [pc EXCEPT ![p] = "r_commit"]
    /\ UNCHANGED <<clock, users, tokens, op, res, retUser, retTok, txnow, uid,
                   held, rev, scan, ukey, calls, hist>>
    /\ UNCHANGED ext

\* tx.Commit; return user, tok, nil
RotateCommit(p) ==
    /\ pc[p] = "r_commit"
    /\ tokens' = CommitTokens(p)
    /\ CommitHistory(p)
    /\ retTok' = [retTok EXCEPT ![p] = Len(tokens')]
    /\ res' = [res EXCEPT ![p] = "ok"]
    /\ pc' = [pc EXCEPT ![p] = "done"]
    /\ Rollback(p)
    /\ UNCHANGED <<clock, users, op, retUser, txnow, uid, calls,
                   exOk, coOk, atBegin, overlap>>
    /\ UNCHANGED ext

\* ------------------------------------------------------- ExchangeToken
\* what the presented value is in the committed table when the call's
\* transaction begins (history)
StateOf(v, now) ==
    LET rows == {i \in TokIds : tokens[i].token = v}
    IN  IF rows = {} THEN "unknown"
        ELSE IF \A i \in rows : tokens[i].revoked THEN "revoked"
        ELSE IF \A i \in rows : tokens[i].expires_at <= now THEN "expired"
        ELSE "active"

ExchangeBegin(p) ==
    /\ pc[p] = "x_begin"
    /\ Begin(p, "x_select")
    /\ atBegin' = [atBegin EXCEPT ![p] = StateOf(op[p].tok, clock)]
    /\ UNCHANGED <<clock, users, tokens, op, res, retUser, retTok, uid,
                   held, rev, scan, ins, ukey, calls,
                   exOk, coOk, revokedBy, mintedFrom, overlap, wrote>>
    /\ UNCHANGED ext

\* SELECT user_id FROM login_tokens WHERE token = $1 AND revoked = false
\* AND expires_at > now() FOR UPDATE: the rows found, once their locks are
\* granted and the WHERE clause still holds of their committed version
\* faulty variant: the WHERE clause lacks expires_at > now()
ExchangeLookup_NoExpiry(p) ==
    {i \in RowsOf(op[p].tok) : tokens[i].revoked = FALSE}

ExchangeLookup(p) == Matching(op[p].tok, txnow[p])

\* faulty variant: the SELECT without FOR UPDATE locks nothing
ExchangeLocks_NoForUpdate(p) == {}

\* FOR UPDATE: the rows found are locked until the transaction ends
ExchangeLocks(p) == ExchangeLookup(p)

\* the statement waits while another transaction holds a row it must lock
ExchangeLockWait(p) == \E i \in ExchangeLocks(p) : ~LockFree(p, i)

\* pgx.ErrNoRows: return ErrInvalidOrExpiredToken.  Otherwise the rows are
\* locked and userID is read.
ExchangeSelect(p) ==
    /\ pc[p] = "x_select"
    /\ ~ExchangeLockWait(p)
    /\ IF ExchangeLookup(p) = {}
       THEN /\ pc' = [pc EXCEPT ![p] = "done"]
            /\ res' = [res EXCEPT ![p] = "invalid"]
            /\ UNCHANGED <<held, uid>>
       ELSE /\ pc' = [pc EXCEPT ![p] = "x_revoke"]
            /\ held' = [held EXCEPT ![p] = ExchangeLocks(p)]
            /\ uid' = [uid EXCEPT ![p] =
                   tokens[CHOOSE i \in ExchangeLookup(p) : TRUE].user_id]
            /\ UNCHANGED res
    /\ UNCHANGED <<clock, users, tokens, op, retUser, retTok, txnow,
                   rev, scan, ins, ukey, calls, hist>>
    /\ UNCHANGED ext

\* faulty variant: the UPDATE has no WHERE clause
ExchangeRevokeRows_NoWhere(p) == TokIds

\* UPDATE login_tokens SET revoked = true WHERE token = $1
ExchangeRevokeRows(p) == RowsOf(op[p].tok)

\* the UPDATE takes the lock of every row it writes
ExchangeRevoke(p) ==
    /\ pc[p] = "x_revoke"
    /\ \A i \in ExchangeRevokeRows(p) : LockFree(p, i)
    /\ rev' = [rev EXCEPT ![p] = ExchangeRevokeRows(p)]
    /\ held' = [held EXCEPT ![p] = @ \cup ExchangeRevokeRows(p)]
    /\ pc' = [pc EXCEPT ![p] = "x_insert"]
    /\ UNCHANGED <<clock, users, tokens, op, res, retUser, retTok, txnow, uid,
                   scan, ins, ukey, calls, hist>>
    /\ UNCHANGED ext

\* create replacement token
ExchangeInsert(p) ==
    /\ pc[p] = "x_insert"
    /\ ins' = [ins EXCEPT ![p] = NewTokenRow(p, uid[p])]
    /\ pc' = [pc EXCEPT ![p] = "x_user"]
    /\ UNCHANGED <<clock, users, tokens, op, res, retUser, retTok, txnow, uid,
                   held, rev, scan, ukey, calls, hist>>
    /\ UNCHANGED ext

\* SELECT id, discord_user_id, discord_username, ... FROM users WHERE id = $1
FetchUser(id) == UserRecord(users, id)

ExchangeFetchUser(p) ==
    /\ pc[p] = "x_user"
    /\ retUser' = [retUser EXCEPT ![p] = FetchUser(uid[p])]
    /\ pc' = [pc EXCEPT ![p] = "x_commit"]
    /\ UNCHANGED <<clock, users, tokens, op, res, retTok, txnow, uid,
                   held, rev, scan, ins, ukey, calls, hist>>
    /\ UNCHANGED ext

\* tx.Commit; return u, newTok, nil
ExchangeCommit(p) ==
    /\ pc[p] = "x_commit"
    /\ tokens' = CommitTokens(p)
    /\ CommitHistory(p)
    /\ exOk' = [exOk EXCEPT ![op[p].tok] = @ + 1]
    /\ retTok' = [retTok EXCEPT ![p] = Len(tokens')]
    /\ res' = [res EXCEPT ![p] = "ok"]
    /\ pc' = [pc EXCEPT ![p] = "done"]
    /\ Rollback(p)
    /\ UNCHANGED <<clock, users, op, retUser, txnow, uid, calls,
                   coOk, atBegin, overlap>>
    /\ UNCHANGED ext

\* -------------------------------------------------------- ConsumeToken
ConsumeBegin(p) ==
    /\ pc[p] = "c_begin"
    /\ Begin(p, "c_select")
    /\ atBegin' = [atBegin EXCEPT ![p] = StateOf(op[p].tok, clock)]
    /\ UNCHANGED <<clock, users, tokens, op, res, retUser, retTok, uid,
                   held, rev, scan, ins, ukey, calls,
                   exOk, coOk, revokedBy, mintedFrom, overlap, wrote>>
    /\ UNCHANGED ext

\* the same SELECT ... FOR UPDATE as ExchangeToken's (tokens.go:80-84)
\* faulty variant: the WHERE clause lacks revoked = false
ConsumeLookup_NoRevoked(p) ==
    {i \in RowsOf(op[p].tok) : tokens[i].expires_at > txnow[p]}

ConsumeLookup(p) == Matching(op[p].tok, txnow[p])

\* faulty variant: the SELECT without FOR UPDATE locks nothing
ConsumeLocks_NoForUpdate(p) == {}

ConsumeLocks(p) == ConsumeLookup(p)

ConsumeLockWait(p) == \E i \in ConsumeLocks(p) : ~LockFree(p, i)

ConsumeSelect(p) ==
    /\ pc[p] = "c_select"
    /\ ~ConsumeLockWait(p)
    /\ IF ConsumeLookup(p) = {}
       THEN /\ pc' = [pc EXCEPT ![p] = "done"]
            /\ res' = [res EXCEPT ![p] = "invalid"]
            /\ UNCHANGED <<held, uid>>
       ELSE /\ pc' = [pc EXCEPT ![p] = "c_revoke"]
            /\ held' = [held EXCEPT ![p] = ConsumeLocks(p)]
            /\ uid' = [uid EXCEPT ![p] =
                   tokens[CHOOSE i \in ConsumeLookup(p) : TRUE].user_id]
            /\ UNCHANGED res
    /\ UNCHANGED <<clock, users, tokens, op, retUser, retTok, txnow,
                   rev, scan, ins, ukey, calls, hist>>
    /\ UNCHANGED ext

\* faulty variant: the UPDATE matches no row
ConsumeRevokeRows_None(p) == {}

\* UPDATE login_tokens SET revoked = true WHERE token = $1
ConsumeRevokeRows(p) == RowsOf(op[p].tok)

ConsumeRevoke(p) ==
    /\ pc[p] = "c_revoke"
    /\ \A i \in ConsumeRevokeRows(p) : LockFree(p, i)
    /\ rev' = [rev EXCEPT ![p] = ConsumeRevokeRows(p)]
    /\ held' = [held EXCEPT ![p] = @ \cup ConsumeRevokeRows(p)]
    /\ pc' = [pc EXCEPT ![p] = "c_user"]
    /\ UNCHANGED <<clock, users, tokens, op, res, retUser, retTok, txnow, uid,
                   scan, ins, ukey, calls, hist>>
    /\ UNCHANGED ext

ConsumeFetchUser(p) ==
    /\ pc[p] = "c_user"
    /\ retUser' = [retUser EXCEPT ![p] = FetchUser(uid[p])]
    /\ pc' = [pc EXCEPT ![p] = "c_commit"]
    /\ UNCHANGED <<clock, users, tokens, op, res, retTok, txnow, uid,
                   held, rev, scan, ins, ukey, calls, hist>>
    /\ UNCHANGED ext

\* tx.Commit; return u, nil
ConsumeCommit(p) ==
    /\ pc[p] = "c_commit"
    /\ tokens' = CommitTokens(p)
    /\ CommitHistory(p)
    /\ coOk' = [coOk EXCEPT ![op[p].tok] = @ + 1]
    /\ res' = [res EXCEPT ![p] = "ok"]
    /\ pc' = [pc EXCEPT ![p] = "done"]
    /\ Rollback(p)
    /\ UNCHANGED <<clock, users, op, retUser, retTok, txnow, uid, calls,
                   exOk, atBegin, overlap>>
    /\ UNCHANGED ext

\* ------------------------------------------------------ the specification
Next ==
    \/ Tick
    \/ \E p \in Procs : StartRotate(p)
    \/ \E p \in Procs : StartExchange(p)
    \/ \E p \in Procs : StartConsume(p)
    \/ \E p \in Procs : StoreError(p)
    \/ \E p \in Procs : UpsertBegin(p)
    \/ \E p \in Procs : UpsertExec(p)
    \/ \E p \in Procs : UpsertCommit(p)
    \/ \E p \in Procs : RotateBegin(p)
    \/ \E p \in Procs : RotateUpdate(p)
    \/ \E p \in Procs : RotateUpdateRow(p)
    \/ \E p \in Procs : RotateInsert(p)
    \/ \E p \in Procs : RotateCommit(p)
    \/ \E p \in Procs : ExchangeBegin(p)
    \/ \E p \in Procs : ExchangeSelect(p)
    \/ \E p \in Procs : ExchangeRevoke(p)
    \/ \E p \in Procs : ExchangeInsert(p)
    \/ \E p \in Procs : ExchangeFetchUser(p)
    \/ \E p \in Procs : ExchangeCommit(p)
    \/ \E p \in Procs : ConsumeBegin(p)
    \/ \E p \in Procs : ConsumeSelect(p)
    \/ \E p \in Procs : ConsumeRevoke(p)
    \/ \E p \in Procs : ConsumeFetchUser(p)
    \/ \E p \in Procs : ConsumeCommit(p)

Spec == Init /\ [][Next]_vars

TypeOK ==
    /\ clock \in 0..MaxClock
    /\ Len(tokens) <= MaxTokens
    /\ \A p \in Procs : held[p] \subseteq TokIds /\ rev[p] \subseteq held[p]
    /\ \A p, q \in Procs : p # q => held[p] \cap held[q] = {}

\* ======================================================= ListenAppEvents
\* db.go ListenAppEvents(ctx): one dedicated connection, LISTEN app_events,
\* then a goroutine that forwards notifications until ctx is cancelled or
\* the connection fails.  events is unbuffered, errs holds ErrsCap values.

\* every use of raw (Exec, WaitForNotification) after conn.Release()
UsesConn == misuse' = (misuse \/ conn # "held")

\* faulty variant: the connection is kept
ReleaseConn_Leak == UNCHANGED <<conn, releases>>

\* conn.Release()
ReleaseConn ==
    /\ conn' = "released"
    /\ releases' = releases + 1

\* conn, err := db.pool.Acquire(ctx); if err != nil { return nil, nil, err }
ListenAcquire ==
    /\ lpc = "l_idle"
    /\ \/ /\ ~ctxDone
          /\ conn' = "held"
          /\ lpc' = "l_listen"
          /\ UNCHANGED lret
       \/ /\ lpc' = "l_failed"
          /\ lret' = "error"
          /\ UNCHANGED conn
    /\ UNCHANGED <<cause, ctxDone, listening, queue, notif, errs, errsClosed,
                   eventsClosed, rxEvents, rxErrs, delivered, taken,
                   sawErrsClosed, sent, notes, received, emitted, releases, misuse>>
    /\ UNCHANGED <<tvars, avars, undone, hvars, lapses>>

\* raw.Exec(ctx, "LISTEN app_events"); on error conn.Release() and return
\* nil, nil, err; otherwise make the channels, start the goroutine and
\* return events, errs, nil
ListenExec ==
    /\ lpc = "l_listen"
    /\ UsesConn
    /\ \/ /\ ~ctxDone
          /\ listening' = TRUE
          /\ lpc' = "g_top"
          /\ lret' = "channels"
          /\ UNCHANGED <<conn, releases>>
       \/ /\ ReleaseConn
          /\ lpc' = "l_failed"
          /\ lret' = "error"
          /\ UNCHANGED listening
    /\ UNCHANGED <<cause, ctxDone, queue, notif, errs, errsClosed,
                   eventsClosed, rxEvents, rxErrs, delivered, taken,
                   sawErrsClosed, sent, notes, received, emitted>>
    /\ UNCHANGED <<tvars, avars, undone, hvars, lapses>>

\* for { select { case <-ctx.Done(): return; default: } ...
GTop ==
    /\ lpc = "g_top"
    /\ lpc' = IF ctxDone THEN "g_unlisten" ELSE "g_wait"
    /\ cause' = IF ctxDone THEN "cancel" ELSE cause
    /\ UNCHANGED <<lret, ctxDone, conn, listening, queue, notif, errs,
                   errsClosed, eventsClosed, rxEvents, rxErrs, delivered,
                   taken, sawErrsClosed, sent, notes, received, emitted, releases,
                   misuse>>
    /\ UNCHANGED <<tvars, avars, undone, hvars, lapses>>

\* faulty variant: after a decode error the loop goes on to send the event
AfterDecodeError_FallThrough == "g_event"

\* errs <- fmt.Errorf("decode notify payload: %w", err); continue
AfterDecodeError == "g_top"

\* notif, err := raw.WaitForNotification(ctxWait) returns a notification: the
\* oldest one the connection holds; then json.Unmarshal of its payload
GNotification ==
    /\ lpc = "g_wait"
    /\ queue # <<>>
    /\ UsesConn
    /\ notif' = Head(queue)
    /\ queue' = Tail(queue)
    /\ received' = Append(received, Head(queue))
    /\ lpc' = IF Decodes(Head(queue)) THEN "g_event" ELSE "g_decode_err"
    /\ UNCHANGED <<lret, cause, ctxDone, conn, listening, errs, errsClosed,
                   eventsClosed, rxEvents, rxErrs, delivered, taken,
                   sawErrsClosed, sent, notes, emitted, releases>>
    /\ UNCHANGED <<tvars, avars, undone, hvars, lapses>>

\* faulty variant: an elapsed wait is taken for a lost connection
AfterTimeout_Return == "g_listen_err"

\* if pgconn.Timeout(err) || errors.Is(err, context.DeadlineExceeded)
\* { continue }
AfterTimeout == "g_top"

\* WaitForNotification returns after 55 seconds without a notification
\* (pgconn.Timeout(err) or context.DeadlineExceeded): continue
GTimeout ==
    /\ lpc = "g_wait"
    /\ queue = <<>>
    /\ UsesConn
    /\ lpc' = AfterTimeout
    /\ lapses' = IF received = <<>> /\ lapses < MaxLapses THEN lapses + 1
                  ELSE lapses
    /\ UNCHANGED <<lret, cause, ctxDone, conn, listening, queue, notif, errs,
                   errsClosed, eventsClosed, rxEvents, rxErrs, delivered,
                   taken, sawErrsClosed, sent, notes, received, emitted, releases>>
    /\ UNCHANGED <<tvars, avars, undone, hvars>>

\* WaitForNotification returns context.Canceled: return
GCanceled ==
    /\ lpc = "g_wait"
    /\ ctxDone
    /\ UsesConn
    /\ lpc' = "g_unlisten"
    /\ cause' = "cancel"
    /\ UNCHANGED <<lret, ctxDone, conn, listening, queue, notif, errs,
                   errsClosed, eventsClosed, rxEvents, rxErrs, delivered,
                   taken, sawErrsClosed, sent, notes, received, emitted, releases>>
    /\ UNCHANGED <<tvars, avars, undone, hvars, lapses>>

\* WaitForNotification returns any other error (the connection is lost):
\* the session is gone, the goroutine goes on to report the error
GTransportError ==
    /\ lpc = "g_wait"
    /\ UsesConn
    /\ listening' = FALSE
    /\ lpc' = "g_listen_err"
    /\ cause' = "error"
    /\ UNCHANGED <<lret, ctxDone, conn, queue, notif, errs, errsClosed,
                   eventsClosed, rxEvents, rxErrs, delivered, taken,
                   sawErrsClosed, sent, notes, received, emitted, releases>>
    /\ UNCHANGED <<tvars, avars, undone, hvars, lapses>>

\* errs <- fmt.Errorf("decode notify payload: %w", err): a send on a
\* buffered channel, which waits while the buffer is full; then continue
GSendDecodeErr ==
    /\ lpc = "g_decode_err"
    /\ Len(errs) < ErrsCap
    /\ errs' = Append(errs, "decode")
    /\ emitted' = Append(emitted, [ch |-> "errs", of |-> Len(received)])
    /\ lpc' = AfterDecodeError
    /\ UNCHANGED <<lret, cause, ctxDone, conn, listening, queue, notif, errsClosed,
                   eventsClosed, rxEvents, rxErrs, delivered, taken,
                   sawErrsClosed, sent, notes, received, releases, misuse>>
    /\ UNCHANGED <<tvars, avars, undone, hvars, lapses>>

\* errs <- fmt.Errorf("listen error: %w", err); return
GSendListenErr ==
    /\ lpc = "g_listen_err"
    /\ Len(errs) < ErrsCap
    /\ errs' = Append(errs, "listen")
    /\ lpc' = "g_unlisten"
    /\ UNCHANGED <<lret, cause, ctxDone, conn, listening, queue, notif, errsClosed,
                   eventsClosed, rxEvents, rxErrs, delivered, taken,
                   sawErrsClosed, sent, notes, received, emitted, releases, misuse>>
    /\ UNCHANGED <<tvars, avars, undone, hvars, lapses>>

\* events <- ev: a send on an unbuffered channel, which completes together
\* with a receive of the consumer
RecvEvent ==
    /\ lpc = "g_event"
    /\ rxEvents
    /\ delivered' = Append(delivered, Unmarshal(notif))
    /\ emitted' = Append(emitted, [ch |-> "events", of |-> Len(received)])
    /\ lpc' = "g_top"
    /\ UNCHANGED <<lret, cause, ctxDone, conn, listening, queue, notif, errs,
                   errsClosed, eventsClosed, rxEvents, rxErrs, taken,
                   sawErrsClosed, sent, notes, received, releases, misuse>>
    /\ UNCHANGED <<tvars, avars, undone, hvars, lapses>>

\* the consumer's <-errs takes the buffered value
RecvError ==
    /\ rxErrs
    /\ errs # <<>>
    /\ taken' = Append(taken, Head(errs))
    /\ errs' = Tail(errs)
    /\ UNCHANGED <<lpc, lret, cause, ctxDone, conn, listening, queue, notif,
                   errsClosed, eventsClosed, rxEvents, rxErrs, delivered,
                   sawErrsClosed, sent, notes, received, emitted, releases, misuse>>
    /\ UNCHANGED <<tvars, avars, undone, hvars, lapses>>

\* the consumer's <-errs on the closed and drained channel
RecvErrsClosed ==
    /\ rxErrs
    /\ errs = <<>>
    /\ errsClosed
    /\ ~sawErrsClosed
    /\ sawErrsClosed' = TRUE
    /\ UNCHANGED <<lpc, lret, cause, ctxDone, conn, listening, queue, notif, errs,
                   errsClosed, eventsClosed, rxEvents, rxErrs, delivered,
                   taken, sent, notes, received, emitted, releases, misuse>>
    /\ UNCHANGED <<tvars, avars, undone, hvars, lapses>>

\* deferred: raw.Exec(context.Background(), "UNLISTEN app_events")
GUnlisten ==
    /\ lpc = "g_unlisten"
    /\ UsesConn
    /\ listening' = FALSE
    /\ lpc' = "g_release"
    /\ UNCHANGED <<lret, cause, ctxDone, conn, queue, notif, errs, errsClosed,
                   eventsClosed, rxEvents, rxErrs, delivered, taken,
                   sawErrsClosed, sent, notes, received, emitted, releases>>
    /\ UNCHANGED <<tvars, avars, undone, hvars, lapses>>

\* faulty variant: the two deferred closes are registered the other way round
AfterRelease_EventsFirst == "g_close_events"

\* defer close(events); defer close(errs); defer func() { ... }(): deferred
\* calls run last in, first out, so close(errs) follows the release
AfterRelease == "g_close_errs"

\* deferred: conn.Release()
GRelease ==
    /\ lpc = "g_release"
    /\ ReleaseConn
    /\ lpc' = AfterRelease
    /\ UNCHANGED <<lret, cause, ctxDone, listening, queue, notif, errs, errsClosed,
                   eventsClosed, rxEvents, rxErrs, delivered, taken,
                   sawErrsClosed, sent, notes, received, emitted, misuse>>
    /\ UNCHANGED <<tvars, avars, undone, hvars, lapses>>

\* deferred: close(errs)
GCloseErrs ==
    /\ lpc = "g_close_errs"
    /\ errsClosed' = TRUE
    /\ lpc' = "g_close_events"
    /\ UNCHANGED <<lret, cause, ctxDone, conn, listening, queue, notif, errs,
                   eventsClosed, rxEvents, rxErrs, delivered, taken,
                   sawErrsClosed, sent, notes, received, emitted, releases, misuse>>
    /\ UNCHANGED <<tvars, avars, undone, hvars, lapses>>

\* deferred: close(events); the goroutine is over
GCloseEvents ==
    /\ lpc = "g_close_events"
    /\ eventsClosed' = TRUE
    /\ lpc' = "g_exit"
    /\ UNCHANGED <<lret, cause, ctxDone, conn, listening, queue, notif, errs,
                   errsClosed, rxEvents, rxErrs, delivered, taken,
                   sawErrsClosed, sent, notes, received, emitted, releases, misuse>>
    /\ UNCHANGED <<tvars, avars, undone, hvars, lapses>>

\* the caller cancels ctx
Cancel ==
    /\ ~ctxDone
    /\ ctxDone' = TRUE
    /\ UNCHANGED <<lpc, lret, cause, conn, listening, queue, notif, errs, errsClosed,
                   eventsClosed, rxEvents, rxErrs, delivered, taken,
                   sawErrsClosed, sent, notes, received, emitted, releases, misuse>>
    /\ UNCHANGED <<tvars, avars, undone, hvars, lapses>>

\* the consumer stops receiving from events
StopEvents ==
    /\ rxEvents
    /\ rxEvents' = FALSE
    /\ UNCHANGED <<lpc, lret, cause, ctxDone, conn, listening, queue, notif, errs,
                   errsClosed, eventsClosed, rxErrs, delivered, taken,
                   sawErrsClosed, sent, notes, received, emitted, releases, misuse>>
    /\ UNCHANGED <<tvars, avars, undone, hvars, lapses>>

\* the consumer stops receiving from errs
StopErrs ==
    /\ rxErrs
    /\ rxErrs' = FALSE
    /\ UNCHANGED <<lpc, lret, cause, ctxDone, conn, listening, queue, notif, errs,
                   errsClosed, eventsClosed, rxEvents, delivered, taken,
                   sawErrsClosed, sent, notes, received, emitted, releases, misuse>>
    /\ UNCHANGED <<tvars, avars, undone, hvars, lapses>>

\* the bound on notifications leaves room for one more
Room ==
    sent + Cardinality({p \in Procs : pc[p] \in {"a_begin", "a_upsert",
            "a_commit", "s_begin", "s_update", "s_commit"}}) < MaxNotifs

\* texts other sessions send: NOTIFY app_events with any text, and the
\* trigger of table users
Foreign == {Garbage, BadAt, UserDoc(1), UserDoc(2)}

Notify ==
    /\ listening
    /\ Room
    /\ \E pl \in Foreign : Deliver(pl, NoChange)
    /\ UNCHANGED <<lpc, lret, cause, ctxDone, conn, listening, notif, errs,
                   errsClosed, eventsClosed, rxEvents, rxErrs, delivered,
                   taken, sawErrsClosed, received, emitted, releases, misuse>>
    /\ UNCHANGED <<tvars, avars, undone, hvars, lapses>>

NextListen ==
    \/ ListenAcquire
    \/ ListenExec
    \/ GTop
    \/ GNotification
    \/ GTimeout
    \/ GCanceled
    \/ GTransportError
    \/ GSendDecodeErr
    \/ GSendListenErr
    \/ RecvEvent
    \/ RecvError
    \/ RecvErrsClosed
    \/ GUnlisten
    \/ GRelease
    \/ GCloseErrs
    \/ GCloseEvents
    \/ Cancel
    \/ StopEvents
    \/ StopErrs
    \/ Notify

\* the listener and its consumer alone
SpecListen == Init /\ [][NextListen]_vars

\* A goroutine that can run does run, a wait that can return does return,
\* and a consumer that receives from a channel takes what is offered.
\* Nothing obliges the caller to cancel, the consumer to keep receiving, the
\* connection to fail or other sessions to notify.
ListenFairness ==
    /\ WF_vars(ListenAcquire)
    /\ WF_vars(ListenExec)
    /\ WF_vars(GTop)
    /\ WF_vars(GNotification)
    /\ WF_vars(GTimeout)
    /\ WF_vars(GCanceled)
    /\ WF_vars(GSendDecodeErr)
    /\ WF_vars(GSendListenErr)
    /\ WF_vars(RecvEvent)
    /\ WF_vars(RecvError)
    /\ WF_vars(RecvErrsClosed)
    /\ WF_vars(GUnlisten)
    /\ WF_vars(GRelease)
    /\ WF_vars(GCloseErrs)
    /\ WF_vars(GCloseEvents)

SpecListenFair == SpecListen /\ ListenFairness

\* ========================================================== applications
\* db.go CreateOrUpdateApplication and UpdateApplicationStatus, and the
\* trigger applications_notify that sends one notification for every row a
\* statement inserts, or updates with status in its SET list.
AppIds == 1..Len(apps)

\* WHERE user_id = $1 (UNIQUE)
AppRowsOf(u) == {i \in AppIds : apps[i].user_id = u}

\* models.go StatusApplicant, StatusMember
AppStatuses == {"applicant", "member"}

\* Application.Answers: the nil map, or a map with an answer
AnswerSets == {NULL, "q1"}

\* if app.Answers == nil { app.Answers = map[string]any{} }
Answers(a) == IF a = NULL THEN "{}" ELSE a

\* faulty variant: the payload carries the status the row had before
NotifyAppEvent_Old(action, id, old, new) == AppDoc(action, id, old.status)

\* notify_app_event(): 'action', TG_OP, 'row_id', COALESCE(NEW.id, OLD.id),
\* 'status', COALESCE(NEW.status, OLD.status)
NotifyAppEvent(action, id, old, new) ==
    AppDoc(action, id, COALESCE(new.status, old.status))

\* a call on applications is entered
EnterApp(p, kind, a, first) ==
    /\ pc[p] \in {"idle", "done"}
    /\ op' = [op EXCEPT ![p] = [NoOp EXCEPT !.kind = kind]]
    /\ arg' = [arg EXCEPT ![p] = a]
    /\ pc' = [pc EXCEPT ![p] = first]
    /\ res' = [res EXCEPT ![p] = IF first = "done" THEN "error" ELSE "none"]
    /\ retUser' = [retUser EXCEPT ![p] = NoRet]
    /\ retTok' = [retTok EXCEPT ![p] = 0]
    /\ retApp' = [retApp EXCEPT ![p] = NoApp]
    /\ uid' = [uid EXCEPT ![p] = NoUser]
    /\ atBegin' = [atBegin EXCEPT ![p] = "none"]
    /\ wrote' = [wrote EXCEPT ![p] = FALSE]
    /\ LET busy(q) == /\ q # p /\ InFlight(q) /\ op[q].kind = "apply"
                       /\ kind = "apply" /\ arg[q].user_id = a.user_id
       IN  overlap' = [q \in Procs |->
                         IF q = p THEN \E r \in Procs : busy(r)
                         ELSE overlap[q] \/ busy(q)]
    /\ UNCHANGED <<clock, users, tokens, txnow, held, rev, scan, ins, ukey,
                   exOk, coOk, revokedBy, mintedFrom>>
    /\ undone' = [undone EXCEPT ![p] = FALSE]
    /\ UNCHANGED <<lvars, apps, akey>>

\* a caller starts a call on applications
StartApp(p, kind, a, first) ==
    /\ calls < MaxCalls
    /\ Room
    /\ calls' = calls + 1
    /\ EnterApp(p, kind, a, first)
    /\ UNCHANGED hvars

\* CreateOrUpdateApplication(ctx, actor, app):
\* if app.UserID == "" { return Application{}, errors.New("user_id required") }
StartApply(p) ==
    \E u \in {NoUser} \cup UserIds, a \in AnswerSets, st \in AppStatuses :
        StartApp(p, "apply",
                 [user_id |-> u, answers |-> a, status |-> st, id |-> 0],
                 IF u = NoUser THEN "done" ELSE "a_begin")

\* UpdateApplicationStatus(ctx, actor, applicationID, status)
StartStatus(p) ==
    \E id \in {0} \cup AppIds, st \in AppStatuses :
        StartApp(p, "status",
                 [user_id |-> NoUser, answers |-> NULL, status |-> st, id |-> id],
                 "s_begin")

ApplyBegin(p) ==
    /\ pc[p] = "a_begin"
    /\ Begin(p, "a_upsert")
    /\ UNCHANGED <<clock, users, tokens, op, res, retUser, retTok, uid,
                   held, rev, scan, ins, ukey, calls, hist>>
    /\ UNCHANGED ext

\* faulty variant: the statement does not wait for the open transaction
AppFree_NoWait(p, u) == TRUE

\* INSERT ... ON CONFLICT (user_id) and UPDATE wait for an open transaction
\* that has inserted or updated the application of the same user
AppFree(p, u) == \A q \in Procs \ {p} : akey[q].user_id # u

\* INSERT INTO applications (user_id, answers, status) VALUES ($1, $2, $3)
\* ON CONFLICT (user_id) DO UPDATE: the statement finds the committed row of
\* the user, or none and inserts
ApplyExec(p) ==
    /\ pc[p] = "a_upsert"
    /\ AppFree(p, arg[p].user_id)
    /\ LET rows == AppRowsOf(arg[p].user_id)
       IN  akey' = [akey EXCEPT ![p] =
                      IF rows = {}
                      THEN [how |-> "insert", row |-> 0,
                            user_id |-> arg[p].user_id]
                      ELSE [how |-> "update", row |-> CHOOSE i \in rows : TRUE,
                            user_id |-> arg[p].user_id]]
    /\ pc' = [pc EXCEPT ![p] = "a_commit"]
    /\ UNCHANGED <<clock, users, tokens, op, res, retUser, retTok, txnow, uid,
                   held, rev, scan, ins, ukey, calls, hist>>
    /\ UNCHANGED <<lvars, apps, arg, retApp, undone, hvars>>

\* RETURNING id, user_id, answers, status, ...; tx.Commit; return out.  The
\* row trigger has queued its notification, which is sent at commit.
ApplyCommit(p) ==
    /\ pc[p] = "a_commit"
    /\ LET k   == akey[p]
           id  == IF k.how = "insert" THEN Len(apps) + 1 ELSE k.row
           old == IF k.how = "insert" THEN NoApp ELSE apps[k.row]
           new == [user_id |-> arg[p].user_id,
                   answers |-> Answers(arg[p].answers),
                   status  |-> arg[p].status]
       IN  /\ apps' = IF k.how = "insert" THEN Append(apps, new)
                      ELSE [apps EXCEPT ![k.row] = new]
           /\ retApp' = [retApp EXCEPT ![p] =
                  [id |-> id, user_id |-> new.user_id,
                   answers |-> new.answers, status |-> new.status]]
           /\ Publish(NotifyAppEvent(IF k.how = "insert" THEN "INSERT"
                                     ELSE "UPDATE", id, old, new),
                      [by |-> "apply", row |-> id, status |-> new.status])
    /\ akey' = [akey EXCEPT ![p] = NoAppKey]
    /\ res' = [res EXCEPT ![p] = "ok"]
    /\ pc' = [pc EXCEPT ![p] = "done"]
    /\ wrote' = [wrote EXCEPT ![p] = TRUE]
    /\ UNCHANGED <<clock, users, tokens, op, retUser, retTok, txnow, uid,
                   held, rev, scan, ins, ukey, calls,
                   exOk, coOk, revokedBy, mintedFrom, atBegin, overlap>>
    /\ UNCHANGED <<lrest, arg, undone, hvars>>

StatusBegin(p) ==
    /\ pc[p] = "s_begin"
    /\ Begin(p, "s_update")
    /\ UNCHANGED <<clock, users, tokens, op, res, retUser, retTok, uid,
                   held, rev, scan, ins, ukey, calls, hist>>
    /\ UNCHANGED ext

\* UPDATE applications SET status = $2 WHERE id = $1 RETURNING ...; Scan
\* returns pgx.ErrNoRows when no row has that id
StatusExec(p) ==
    /\ pc[p] = "s_update"
    /\ IF arg[p].id \in AppIds
       THEN /\ AppFree(p, apps[arg[p].id].user_id)
            /\ akey' = [akey EXCEPT ![p] =
                          [how |-> "update", row |-> arg[p].id,
                           user_id |-> apps[arg[p].id].user_id]]
            /\ pc' = [pc EXCEPT ![p] = "s_commit"]
            /\ UNCHANGED res
       ELSE /\ pc' = [pc EXCEPT ![p] = "done"]
            /\ res' = [res EXCEPT ![p] = "error"]
            /\ UNCHANGED akey
    /\ UNCHANGED <<clock, users, tokens, op, retUser, retTok, txnow, uid,
                   held, rev, scan, ins, ukey, calls, hist>>
    /\ UNCHANGED <<lvars, apps, arg, retApp, undone, hvars>>

\* tx.Commit; return out
StatusCommit(p) ==
    /\ pc[p] = "s_commit"
    /\ LET id  == akey[p].row
           old == apps[id]
           new == [old EXCEPT !.status = arg[p].status]
       IN  /\ apps' = [apps EXCEPT ![id] = new]
           /\ retApp' = [retApp EXCEPT ![p] =
                  [id |-> id, user_id |-> new.user_id,
                   answers |-> new.answers, status |-> new.status]]
           /\ Publish(NotifyAppEvent("UPDATE", id, old, new),
                      [by |-> "status", row |-> id, status |-> new.status])
    /\ akey' = [akey EXCEPT ![p] = NoAppKey]
    /\ res' = [res EXCEPT ![p] = "ok"]
    /\ pc' = [pc EXCEPT ![p] = "done"]
    /\ wrote' = [wrote EXCEPT ![p] = TRUE]
    /\ UNCHANGED <<clock, users, tokens, op, retUser, retTok, txnow, uid,
                   held, rev, scan, ins, ukey, calls,
                   exOk, coOk, revokedBy, mintedFrom, atBegin, overlap>>
    /\ UNCHANGED <<lrest, arg, undone, hvars>>

\* users are made by CreateOrRotateLoginToken; applications by the two calls
NextApps ==
    \/ \E p \in Procs : StartRotate(p)
    \/ \E p \in Procs : StoreError(p)
    \/ \E p \in Procs : UpsertBegin(p)
    \/ \E p \in Procs : UpsertExec(p)
    \/ \E p \in Procs : UpsertCommit(p)
    \/ \E p \in Procs : RotateBegin(p)
    \/ \E p \in Procs : RotateUpdate(p)
    \/ \E p \in Procs : RotateUpdateRow(p)
    \/ \E p \in Procs : RotateInsert(p)
    \/ \E p \in Procs : RotateCommit(p)
    \/ \E p \in Procs : StartApply(p)
    \/ \E p \in Procs : ApplyBegin(p)
    \/ \E p \in Procs : ApplyExec(p)
    \/ \E p \in Procs : ApplyCommit(p)
    \/ \E p \in Procs : StartStatus(p)
    \/ \E p \in Procs : StatusBegin(p)
    \/ \E p \in Procs : StatusExec(p)
    \/ \E p \in Procs : StatusCommit(p)

\* the calls on users and applications, without a listener
SpecApps == Init /\ [][NextApps]_vars

\* One connection writes users and applications while ListenAppEvents runs
\* and its consumer receives from both channels.  No other session sends on
\* app_events here, so every payload decodes.
Writer == 1

\* the writer issues tokens for one identity
WriterRotate ==
    StartCall(Writer, RotateCall(CHOOSE d \in Idents : TRUE,
                                 CHOOSE n \in Names : TRUE))

NextNotify ==
    \/ WriterRotate
    \/ StoreError(Writer)
    \/ UpsertBegin(Writer)
    \/ UpsertExec(Writer)
    \/ UpsertCommit(Writer)
    \/ RotateBegin(Writer)
    \/ RotateUpdate(Writer)
    \/ RotateUpdateRow(Writer)
    \/ RotateInsert(Writer)
    \/ RotateCommit(Writer)
    \/ StartApply(Writer)
    \/ ApplyBegin(Writer)
    \/ ApplyExec(Writer)
    \/ ApplyCommit(Writer)
    \/ StartStatus(Writer)
    \/ StatusBegin(Writer)
    \/ StatusExec(Writer)
    \/ StatusCommit(Writer)
    \/ ListenAcquire
    \/ ListenExec
    \/ GTop
    \/ GNotification
    \/ GTimeout
    \/ GCanceled
    \/ GTransportError
    \/ GSendListenErr
    \/ RecvEvent
    \/ RecvError
    \/ RecvErrsClosed
    \/ GUnlisten
    \/ GRelease
    \/ GCloseErrs
    \/ GCloseEvents
    \/ Cancel

SpecNotify == Init /\ [][NextNotify]_vars

\* ========================================================= UpdateUserProfile
\* UpdateUserProfile(ctx, actor, userID, age, minecraftName), called by the
\* /submit-application handler with user.ID, &req.Age, &req.MinecraftUsername
ProfileCall(u) ==
    [kind |-> "profile", ident |-> 0, name |-> NULL, tok |-> NoTok,
     owner |-> u.discord_user_id]

ProfileBegin(p) ==
    /\ pc[p] = "pf_begin"
    /\ Begin(p, "pf_update")
    /\ UNCHANGED <<clock, users, tokens, op, res, retUser, retTok, uid,
                   held, rev, scan, ins, ukey, calls, hist>>
    /\ UNCHANGED ext

\* UPDATE users SET age = COALESCE($2, age), minecraft_name = $3 WHERE id = $1
\* RETURNING ...: the statement waits for an open transaction that wrote the
\* row; Scan returns pgx.ErrNoRows when no row has that id
ProfileExec(p) ==
    /\ pc[p] = "pf_update"
    /\ IF submitter[p].id \in UserIds
       THEN /\ UpsertFree(p, users[submitter[p].id].discord_user_id)
            /\ ukey' = [ukey EXCEPT ![p] =
                          [ident |-> users[submitter[p].id].discord_user_id,
                           how |-> "profile"]]
            /\ uid' = [uid EXCEPT ![p] = submitter[p].id]
            /\ pc' = [pc EXCEPT ![p] = "pf_commit"]
            /\ UNCHANGED res
       ELSE /\ pc' = [pc EXCEPT ![p] = "done"]
            /\ res' = [res EXCEPT ![p] = "error"]
            /\ UNCHANGED <<ukey, uid>>
    /\ UNCHANGED <<clock, users, tokens, op, retUser, retTok, txnow,
                   held, rev, scan, ins, calls, hist>>
    /\ UNCHANGED ext

\* the users table after the UPDATE of row id
ProfileRows(id, age, mc) ==
    [users EXCEPT ![id] = [@ EXCEPT !.age = CoalesceAge(age, @),
                                    !.minecraft_name = mc]]

\* tx.Commit; return out.  users_notify has queued its notification.
ProfileCommit(p) ==
    /\ pc[p] = "pf_commit"
    /\ users' = ProfileRows(uid[p], req[p].age, req[p].minecraft_username)
    /\ retUser' = [retUser EXCEPT ![p] = UserRecord(users', uid[p])]
    /\ Publish(UserEvent("UPDATE", uid[p]),
               [by |-> "profile", row |-> uid[p], status |-> NULL])
    /\ ukey' = [ukey EXCEPT ![p] = NoKey]
    /\ wrote' = [wrote EXCEPT ![p] = TRUE]
    /\ res' = [res EXCEPT ![p] = "ok"]
    /\ pc' = [pc EXCEPT ![p] = "done"]
    /\ UNCHANGED <<clock, tokens, op, retTok, txnow, uid, held, rev, scan, ins,
                   calls, exOk, coOk, revokedBy, mintedFrom, atBegin, overlap>>
    /\ UNCHANGED <<lrest, avars, undone, hvars>>


\* ======================================================= the HTTP handlers
\* main.go: every request runs its handler in a goroutine of its own, here
\* process p.  A handler decodes and checks the body, then calls
\* database_service and answers from what the calls return.

DigitChars == <<"0", "1", "2", "3", "4", "5", "6", "7", "8", "9">>

IsDigit(c) == \E d \in DOMAIN DigitChars : DigitChars[d] = c

DigitVal(c) == (CHOOSE d \in DOMAIN DigitChars : DigitChars[d] = c) - 1

RECURSIVE ParseUint(_)
ParseUint(s) ==
    IF s = <<>> THEN 0
    ELSE 10 * ParseUint(SubSeq(s, 1, Len(s) - 1)) + DigitVal(s[Len(s)])

\* strconv.ParseInt(s, 10, 64): an optional sign, then one digit or more.
\* The texts of the model are too short to leave the range of int64.
ParseInt(s) ==
    LET signed == s # <<>> /\ s[1] \in {"+", "-"}
        digits == IF signed THEN Tail(s) ELSE s
    IN  IF digits = <<>> \/ \E i \in DOMAIN digits : ~IsDigit(digits[i])
        THEN [err |-> TRUE, val |-> 0]
        ELSE [err |-> FALSE,
              val |-> IF signed /\ s[1] = "-" THEN 0 - ParseUint(digits)
                      ELSE ParseUint(digits)]

\* what clients send
Methods        == {"POST", "GET"}
DiscordIdTexts == {<<>>, <<"4", "2">>, <<"+", "4", "2">>, <<"4", "x">>}
Usernames      == {"", "ann"}
Ages           == {0 - 1, 0, 120, 121}
MinecraftNames == {"", "steve"}
TokenTexts     == {NoTok} \cup {tokens[i].token : i \in TokIds}

\* a request whose body is not the JSON the handler decodes leaves the
\* fields of the decoded struct at their zero values
Undecoded(route, m) ==
    [NoReq EXCEPT !.route = route, !.method = m,
                  !.body = IF m = "POST" THEN "garbage" ELSE "none"]

CreateRequests ==
    {Undecoded("/create-login-token", m) : m \in Methods} \cup
    {[NoReq EXCEPT !.route = "/create-login-token", !.method = "POST",
                   !.body = "object", !.discord_id = d, !.username = n] :
        d \in DiscordIdTexts, n \in Usernames}

ExchangeRequests ==
    {Undecoded("/exchange-token", m) : m \in Methods} \cup
    {[NoReq EXCEPT !.route = "/exchange-token", !.method = "POST",
                   !.body = "object", !.token = v] : v \in TokenTexts}

SubmitRequests ==
    {Undecoded("/submit-application", m) : m \in Methods} \cup
    {[NoReq EXCEPT !.route = "/submit-application", !.method = "POST",
                   !.body = "object", !.token = v, !.age = a,
                   !.minecraft_username = mc] :
        v \in TokenTexts, a \in Ages, mc \in MinecraftNames}

\* the goroutine p is free to serve a request
Idle(p) ==
    /\ req[p] = NoReq \/ http[p] # 0
    /\ pc[p] \in {"idle", "done"}

\* the server accepts one more request
Accept(p, r) ==
    /\ Idle(p)
    /\ requests < MaxRequests
    /\ requests' = requests + 1
    /\ req' = [req EXCEPT ![p] = r]

\* http.Error(w, ..., code); return: the handler has called nothing
Refuse(p, code) ==
    /\ http' = [http EXCEPT ![p] = code]
    /\ UNCHANGED <<tvars, lvars, avars, undone, submitter, authorized>>

\* the handler answers from the result of its last call
Reply(p, code) ==
    /\ http' = [http EXCEPT ![p] = code]
    /\ UNCHANGED <<tvars, lvars, avars, undone, req, requests, submitter,
                   authorized>>

\* the handler of route has called kind, and the call has returned
Returned(p, route, kind) ==
    /\ req[p].route = route /\ http[p] = 0
    /\ pc[p] = "done" /\ op[p].kind = kind

\* main.go:67-83: the status /create-login-token answers before it calls
\* the store, 0 when the request passes
CreateChecks(r) ==
    IF r.method # "POST" THEN 405
    ELSE IF r.body # "object" \/ r.discord_id = <<>> \/ r.username = ""
         THEN 400
    ELSE IF ParseInt(r.discord_id).err THEN 400
    ELSE 0

\* POST /create-login-token
CreateLoginToken(p) ==
    \E r \in CreateRequests :
        /\ Accept(p, r)
        /\ IF CreateChecks(r) # 0 THEN Refuse(p, CreateChecks(r))
           ELSE /\ Len(tokens) + Cardinality(Minting) < MaxTokens
                /\ http' = [http EXCEPT ![p] = 0]
                /\ EnterCall(p, RotateCall(ParseInt(r.discord_id).val,
                                           r.username))
                /\ UNCHANGED <<calls, submitter, authorized>>

\* if err != nil { http.Error(w, "server error", 500) } else the token
CreateLoginTokenReply(p) ==
    /\ Returned(p, "/create-login-token", "rotate")
    /\ Reply(p, IF res[p] = "ok" THEN 200 ELSE 500)

\* main.go:103-111
ExchangeChecks(r) ==
    IF r.method # "POST" THEN 405
    ELSE IF r.body # "object" THEN 400
    ELSE 0

\* POST /exchange-token
ExchangeTokenRequest(p) ==
    \E r \in ExchangeRequests :
        /\ Accept(p, r)
        /\ IF ExchangeChecks(r) # 0 THEN Refuse(p, ExchangeChecks(r))
           ELSE /\ Len(tokens) + Cardinality(Minting) < MaxTokens
                /\ http' = [http EXCEPT ![p] = 0]
                /\ EnterCall(p, [kind |-> "exchange", ident |-> 0,
                                 name |-> NULL, tok |-> r.token,
                                 owner |-> OwnerOf(r.token)])
                /\ UNCHANGED <<calls, submitter, authorized>>

\* faulty variant: every error of the operation is answered as unauthorized
TokenErrorStatus_Always401(result) == 401

\* the status a handler answers for the error of a token operation
TokenErrorStatus(result) == IF result = "invalid" THEN 401 ELSE 500

ExchangeTokenReply(p) ==
    /\ Returned(p, "/exchange-token", "exchange")
    /\ Reply(p, IF res[p] = "ok" THEN 200 ELSE TokenErrorStatus(res[p]))

\* faulty variant: the age has no upper limit
SubmitChecks_NoUpper(r) ==
    IF r.method # "POST" THEN 405
    ELSE IF r.body # "object" THEN 400
    ELSE IF r.age < 0 \/ r.minecraft_username = "" THEN 400
    ELSE 0

\* main.go:135-149: the status /submit-application answers before it calls
\* the store, 0 when the request passes
SubmitChecks(r) ==
    IF r.method # "POST" THEN 405
    ELSE IF r.body # "object" THEN 400
    ELSE IF r.age < 0 \/ r.age > 120 \/ r.minecraft_username = "" THEN 400
    ELSE 0

\* POST /submit-application
SubmitApplication(p) ==
    \E r \in SubmitRequests :
        /\ Accept(p, r)
        /\ IF SubmitChecks(r) # 0 THEN Refuse(p, SubmitChecks(r))
           ELSE /\ http' = [http EXCEPT ![p] = 0]
                /\ EnterCall(p, [kind |-> "consume", ident |-> 0,
                                 name |-> NULL, tok |-> r.token,
                                 owner |-> OwnerOf(r.token)])
                /\ UNCHANGED <<calls, submitter, authorized>>

\* faulty variant: if err != nil && err != ds.ErrInvalidOrExpiredToken
ConsumeFailed_StoreOnly(result) == result = "error"

\* user, err := db.ConsumeToken(...); if err != nil
ConsumeFailed(result) == result # "ok"

\* user, err := db.ConsumeToken(...): on an error the handler answers, on
\* success it calls UpdateUserProfile for user.ID
SubmitConsumed(p) ==
    /\ Returned(p, "/submit-application", "consume")
    /\ IF ConsumeFailed(res[p]) THEN Reply(p, TokenErrorStatus(res[p]))
       ELSE /\ submitter' = [submitter EXCEPT ![p] = retUser[p]]
            /\ EnterCall(p, ProfileCall(retUser[p]))
            /\ authorized' = [authorized EXCEPT
                                 ![req[p].token].profile = @ + 1]
            /\ UNCHANGED <<calls, req, http, requests>>

\* _, err = db.UpdateUserProfile(...): on an error the handler answers 500,
\* on success it calls CreateOrUpdateApplication with the answers of the
\* form and StatusApplicant
SubmitProfiled(p) ==
    /\ Returned(p, "/submit-application", "profile")
    /\ IF res[p] # "ok" THEN Reply(p, 500)
       ELSE /\ EnterApp(p, "apply",
                        [user_id |-> submitter[p].id, answers |-> "q1",
                         status |-> "applicant", id |-> 0],
                        "a_begin")
            /\ authorized' = [authorized EXCEPT
                                 ![req[p].token].apply = @ + 1]
            /\ UNCHANGED <<calls, req, http, requests, submitter>>

\* app, err := db.CreateOrUpdateApplication(...): 500, or the application id
SubmitApplied(p) ==
    /\ Returned(p, "/submit-application", "apply")
    /\ Reply(p, IF res[p] = "ok" THEN 200 ELSE 500)

NextHttp ==
    \/ Tick
    \/ \E p \in Procs : CreateLoginToken(p)
    \/ \E p \in Procs : CreateLoginTokenReply(p)
    \/ \E p \in Procs : ExchangeTokenRequest(p)
    \/ \E p \in Procs : ExchangeTokenReply(p)
    \/ \E p \in Procs : SubmitApplication(p)
    \/ \E p \in Procs : SubmitConsumed(p)
    \/ \E p \in Procs : SubmitProfiled(p)
    \/ \E p \in Procs : SubmitApplied(p)
    \/ \E p \in Procs : StoreError(p)
    \/ \E p \in Procs : UpsertBegin(p)
    \/ \E p \in Procs : UpsertExec(p)
    \/ \E p \in Procs : UpsertCommit(p)
    \/ \E p \in Procs : RotateBegin(p)
    \/ \E p \in Procs : RotateUpdate(p)
    \/ \E p \in Procs : RotateUpdateRow(p)
    \/ \E p \in Procs : RotateInsert(p)
    \/ \E p \in Procs : RotateCommit(p)
    \/ \E p \in Procs : ExchangeBegin(p)
    \/ \E p \in Procs : ExchangeSelect(p)
    \/ \E p \in Procs : ExchangeRevoke(p)
    \/ \E p \in Procs : ExchangeInsert(p)
    \/ \E p \in Procs : ExchangeFetchUser(p)
    \/ \E p \in Procs : ExchangeCommit(p)
    \/ \E p \in Procs : ConsumeBegin(p)
    \/ \E p \in Procs : ConsumeSelect(p)
    \/ \E p \in Procs : ConsumeRevoke(p)
    \/ \E p \in Procs : ConsumeFetchUser(p)
    \/ \E p \in Procs : ConsumeCommit(p)
    \/ \E p \in Procs : ProfileBegin(p)
    \/ \E p \in Procs : ProfileExec(p)
    \/ \E p \in Procs : ProfileCommit(p)
    \/ \E p \in Procs : ApplyBegin(p)
    \/ \E p \in Procs : ApplyExec(p)
    \/ \E p \in Procs : ApplyCommit(p)

\* the server of main.go: its three handlers over the store
SpecHttp == Init /\ [][NextHttp]_vars

\* ================================================ two clients, two tokens
\* Each of two clients is issued a token by /create-login-token and then
\* presents it, to ExchangeToken or to ConsumeToken.

\* the client asks for its token
PairRotate(p) ==
    /\ pc[p] = "idle"
    /\ \E d \in Idents :
          EnterCall(p, RotateCall(d, CHOOSE n \in Names : TRUE))
    /\ UNCHANGED <<calls, hvars>>

\* the client presents the token it was given
PairToken(p) ==
    /\ pc[p] = "done" /\ op[p].kind = "rotate" /\ res[p] = "ok"
    /\ \E k \in {"exchange", "consume"} :
          /\ k = "exchange" => Len(tokens) + Cardinality(Minting) < MaxTokens
          /\ EnterCall(p, [kind |-> k, ident |-> 0, name |-> NULL,
                           tok |-> tokens[retTok[p]].token,
                           owner |-> op[p].ident])
    /\ UNCHANGED <<calls, hvars>>

\* the next statement of the call p runs
CallStep(p) ==
    \/ UpsertBegin(p) \/ UpsertExec(p) \/ UpsertCommit(p)
    \/ RotateBegin(p) \/ RotateUpdate(p) \/ RotateUpdateRow(p)
    \/ RotateInsert(p) \/ RotateCommit(p)
    \/ ExchangeBegin(p) \/ ExchangeSelect(p) \/ ExchangeRevoke(p)
    \/ ExchangeInsert(p) \/ ExchangeFetchUser(p) \/ ExchangeCommit(p)
    \/ ConsumeBegin(p) \/ ConsumeSelect(p) \/ ConsumeRevoke(p)
    \/ ConsumeFetchUser(p) \/ ConsumeCommit(p)

NextPair ==
    \/ Tick
    \/ \E p \in Procs : PairRotate(p)
    \/ \E p \in Procs : PairToken(p)
    \/ \E p \in Procs : StoreError(p)
    \/ \E p \in Procs : UpsertBegin(p)
    \/ \E p \in Procs : UpsertExec(p)
    \/ \E p \in Procs : UpsertCommit(p)
    \/ \E p \in Procs : RotateBegin(p)
    \/ \E p \in Procs : RotateUpdate(p)
    \/ \E p \in Procs : RotateUpdateRow(p)
    \/ \E p \in Procs : RotateInsert(p)
    \/ \E p \in Procs : RotateCommit(p)
    \/ \E p \in Procs : ExchangeBegin(p)
    \/ \E p \in Procs : ExchangeSelect(p)
    \/ \E p \in Procs : ExchangeRevoke(p)
    \/ \E p \in Procs : ExchangeInsert(p)
    \/ \E p \in Procs : ExchangeFetchUser(p)
    \/ \E p \in Procs : ExchangeCommit(p)
    \/ \E p \in Procs : ConsumeBegin(p)
    \/ \E p \in Procs : ConsumeSelect(p)
    \/ \E p \in Procs : ConsumeRevoke(p)
    \/ \E p \in Procs : ConsumeFetchUser(p)
    \/ \E p \in Procs : ConsumeCommit(p)

SpecPair == Init /\ [][NextPair]_vars

\* The server runs the statement a call has sent as soon as no lock stands
\* in its way, and the goroutine of the call goes on when the statement
\* returns.  Nothing obliges a statement to fail or a client to call.
PairFairness == \A p \in Procs : WF_vars(CallStep(p))

SpecPairFair == SpecPair /\ PairFairness

\* =============================================================== claims
\* "active" is read as the code reads it: revoked = false and
\* expires_at > now(), with now() the time of the call's transaction.
Values == 1..MaxTokens

Finished(p, kinds, v) ==
    pc[p] = "done" /\ op[p].kind \in kinds /\ op[p].tok = v

\* some call won the value: every row carrying it was revoked by one of kinds
RevokedOnlyBy(v, kinds) ==
    \A i \in TokIds : tokens[i].token = v => revokedBy[i] \in kinds

Replacements(v) == {i \in TokIds : mintedFrom[i] = v}

\* C1: of the ExchangeToken calls that present one value, at most one
\* returns success, and as many replacement tokens exist as calls succeeded
\* (none or one).  A call that began while the value was active and returned
\* ErrInvalidOrExpiredToken lost to exactly one successful ExchangeToken,
\* unless a ConsumeToken or a rotation revoked the value.
C1_ExchangeOnce ==
    \A v \in Values :
        /\ exOk[v] <= 1
        /\ Cardinality(Replacements(v)) = exOk[v]
        /\ \A p \in Procs :
              ( /\ Finished(p, {"exchange"}, v)
                /\ atBegin[p] = "active"
                /\ res[p] = "invalid"
                /\ RevokedOnlyBy(v, {"exchange"}) )
              => exOk[v] = 1

\* two ExchangeToken calls ran concurrently on one active value: one
\* succeeded, the other began before the winner committed and was refused
C1_Witness ==
    \E p, q \in Procs : \E v \in Values :
        /\ p # q
        /\ Finished(p, {"exchange"}, v) /\ res[p] = "ok"
        /\ Finished(q, {"exchange"}, v) /\ res[q] = "invalid"
        /\ atBegin[q] = "active"

\* C2: whenever no CreateOrRotateLoginToken and no ExchangeToken is in
\* flight, every user has at most one token that is non-revoked and not past
\* its expiry.
C2_AtMostOneActivePerUser ==
    (\A p \in Procs : ~(InFlight(p) /\ op[p].kind \in {"rotate", "exchange"}))
    => \A u \in UserIds :
          Cardinality({i \in TokIds : /\ tokens[i].user_id = u
                                      /\ ~tokens[i].revoked
                                      /\ tokens[i].expires_at > clock}) <= 1

\* C3: of the ExchangeToken and ConsumeToken calls that present one value,
\* at most one returns a user.  A ConsumeToken or ExchangeToken call that
\* began while the value was active and returned ErrInvalidOrExpiredToken
\* lost to exactly one successful call, unless a rotation revoked the value.
C3_SpendOnce ==
    \A v \in Values :
        /\ exOk[v] + coOk[v] <= 1
        /\ \A p \in Procs :
              ( /\ Finished(p, {"exchange", "consume"}, v)
                /\ atBegin[p] = "active"
                /\ res[p] = "invalid"
                /\ RevokedOnlyBy(v, {"exchange", "consume"}) )
              => exOk[v] + coOk[v] = 1

\* a ConsumeToken ran concurrently with an ExchangeToken or a ConsumeToken
\* on one active value; one of the two succeeded and the other was refused
C3_Witness ==
    \E p, q \in Procs : \E v \in Values :
        /\ p # q
        /\ Finished(p, {"consume"}, v)
        /\ Finished(q, {"exchange", "consume"}, v)
        /\ atBegin[p] = "active" /\ atBegin[q] = "active"
        /\ {res[p], res[q]} = {"ok", "invalid"}

\* C4: a CreateOrRotateLoginToken call that returned an error has committed
\* no change of the store.
C4_RotateErrorLeavesStore ==
    \A p \in Procs :
        (pc[p] = "done" /\ op[p].kind = "rotate" /\ res[p] = "error")
        => ~wrote[p]

\* C5: a call of ExchangeToken or ConsumeToken that presents a non-revoked
\* token whose expires_at is at or before the call's now() never gets past
\* the lookup: it locks nothing, writes nothing, commits nothing, and it
\* returns ErrInvalidOrExpiredToken (or the error of a failed statement).
C5_ExpiredNeverAccepted ==
    \A p \in Procs :
        (op[p].kind \in {"exchange", "consume"} /\ atBegin[p] = "expired")
        => /\ pc[p] \in {"x_select", "c_select", "done"}
           /\ held[p] = {} /\ rev[p] = {} /\ ins[p] = NoIns
           /\ ~wrote[p]
           /\ pc[p] = "done" => res[p] \in {"invalid", "error"}

\* an ExchangeToken and a ConsumeToken were both refused an expired token
\* whose revoked flag is still false
C5_Witness ==
    \E p, q \in Procs : \E v \in Values :
        /\ Finished(p, {"exchange"}, v) /\ Finished(q, {"consume"}, v)
        /\ atBegin[p] = "expired" /\ atBegin[q] = "expired"
        /\ res[p] = "invalid" /\ res[q] = "invalid"
        /\ \A i \in TokIds : tokens[i].token = v => ~tokens[i].revoked

\* the token row a successful ExchangeToken of p is about
PresentedRows(p) == {i \in TokIds : tokens[i].token = op[p].tok}

\* C6: the step in which ExchangeToken commits and returns success returns
\* the user the presented token is bound to and a new row bound to that
\* user, non-revoked, expiring after now(), whose value differs from the
\* presented one, and leaves the presented row revoked.  An ExchangeToken
\* that begins once the value is revoked never succeeds.
C6_Step(p) ==
    (pc[p] = "x_commit" /\ pc'[p] = "done" /\ res'[p] = "ok")
    => LET n == retTok'[p]
       IN  /\ n \in 1..Len(tokens') /\ n \notin TokIds
           /\ {tokens[i].user_id : i \in PresentedRows(p)} = {retUser'[p].id}
           /\ users[retUser'[p].id].discord_user_id = retUser'[p].discord_user_id
           /\ tokens'[n].user_id = retUser'[p].id
           /\ tokens'[n].token # op[p].tok
           /\ ~tokens'[n].revoked /\ tokens'[n].expires_at > txnow[p]
           /\ \A i \in PresentedRows(p) : tokens'[i].revoked

C6_Later ==
    \A q \in Procs :
        (op[q].kind = "exchange" /\ atBegin[q] = "revoked")
        => /\ pc[q] \in {"x_select", "done"}
           /\ pc[q] = "done" => res[q] \in {"invalid", "error"}

C6_ExchangeRoundTrip == [][\A p \in Procs : C6_Step(p)]_vars /\ []C6_Later

\* a token issued by CreateOrRotateLoginToken was exchanged with success,
\* and a later ExchangeToken of the same value was refused
C6_Witness ==
    \E p, q \in Procs : \E v \in Values :
        /\ Finished(p, {"exchange"}, v) /\ res[p] = "ok"
        /\ \A i \in TokIds : tokens[i].token = v => mintedFrom[i] = NoTok
        /\ tokens[retTok[p]].token # v
        /\ Finished(q, {"exchange"}, v) /\ res[q] = "invalid"
        /\ atBegin[q] = "revoked"

\* C7: the step in which ConsumeToken commits and returns success returns
\* the user the token is bound to, leaves the token revoked and inserts no
\* row.  Each value makes ConsumeToken succeed at most once, a consumed
\* value has no replacement, and a ConsumeToken or ExchangeToken that begins
\* once the value is consumed never succeeds.
C7_Step(p) ==
    (pc[p] = "c_commit" /\ pc'[p] = "done" /\ res'[p] = "ok")
    => /\ Len(tokens') = Len(tokens)
       /\ retTok'[p] = 0
       /\ \A i \in PresentedRows(p) :
             tokens'[i].revoked /\ retUser'[p].id = tokens[i].user_id

C7_Inv ==
    /\ \A v \in Values :
          /\ coOk[v] <= 1
          /\ coOk[v] = 1 =>
                /\ Replacements(v) = {}
                /\ \A i \in TokIds : tokens[i].token = v => tokens[i].revoked
    /\ \A q \in Procs :
          ( /\ op[q].kind \in {"exchange", "consume"}
            /\ atBegin[q] = "revoked"
            /\ coOk[op[q].tok] = 1 )
          => /\ pc[q] \in {"x_select", "c_select", "done"}
             /\ pc[q] = "done" => res[q] \in {"invalid", "error"}

C7_ConsumeTerminal == [][\A p \in Procs : C7_Step(p)]_vars /\ []C7_Inv

\* a value was consumed with success and a second ConsumeToken of it was
\* refused
C7_Witness ==
    \E p, q \in Procs : \E v \in Values :
        /\ Finished(p, {"consume"}, v) /\ res[p] = "ok"
        /\ Finished(q, {"consume"}, v) /\ res[q] = "invalid"
        /\ atBegin[q] = "revoked"

\* C8: the step in which a CreateOrRotateLoginToken that overlapped no other
\* call on the same user commits and returns success leaves that user with
\* exactly one active token, the one returned, and every token of the user
\* that was active before is revoked.
C8_Step(p) ==
    (pc[p] = "r_commit" /\ pc'[p] = "done" /\ res'[p] = "ok" /\ ~overlap[p])
    => /\ {i \in 1..Len(tokens') : /\ tokens'[i].user_id = retUser[p].id
                                   /\ ~tokens'[i].revoked
                                   /\ tokens'[i].expires_at > txnow[p]}
          = {retTok'[p]}
       /\ \A i \in TokIds :
             ( /\ tokens[i].user_id = retUser[p].id
               /\ ~tokens[i].revoked
               /\ tokens[i].expires_at > txnow[p] )
             => tokens'[i].revoked

C8_RotateLeavesOneActive == [][\A p \in Procs : C8_Step(p)]_vars

\* a rotation that overlapped no call on its user returned a token while
\* that user had an earlier token, which is now revoked by a rotation
C8_Witness ==
    \E p \in Procs :
        /\ pc[p] = "done" /\ op[p].kind = "rotate" /\ res[p] = "ok"
        /\ ~overlap[p]
        /\ ~tokens[retTok[p]].revoked
        /\ \E i \in TokIds :
              /\ i < retTok[p]
              /\ tokens[i].user_id = retUser[p].id
              /\ tokens[i].expires_at > txnow[p]
              /\ revokedBy[i] = "rotate"

\* the lookup of p finds no non-revoked, non-expired row of the value
NoMatchingRow(p) ==
    ~\E i \in TokIds : /\ tokens[i].token = op[p].tok
                       /\ ~tokens[i].revoked
                       /\ tokens[i].expires_at > txnow[p]

\* C9: when the lookup of ExchangeToken or ConsumeToken finds no
\* non-revoked, non-expired row of the presented value, the call ends there:
\* it returns ErrInvalidOrExpiredToken (unless the statement itself fails),
\* and neither table changes.  A call that returned
\* ErrInvalidOrExpiredToken has committed nothing.
C9_Step(p) ==
    (pc[p] \in {"x_select", "c_select"} /\ NoMatchingRow(p) /\ pc'[p] # pc[p])
    => /\ pc'[p] = "done"
       /\ res'[p] = "invalid" \/ StoreError(p)
       /\ res'[p] \in {"invalid", "error"}
       /\ tokens' = tokens /\ users' = users
       /\ held'[p] = {} /\ rev'[p] = {} /\ ins'[p] = NoIns

C9_Inv ==
    \A p \in Procs : res[p] = "invalid" => ~wrote[p] /\ pc[p] = "done"

C9_InvalidLeavesStore == [][\A p \in Procs : C9_Step(p)]_vars /\ []C9_Inv

\* a ConsumeToken or ExchangeToken presented a revoked value and got
\* ErrInvalidOrExpiredToken
C9_Witness ==
    \E p \in Procs : \E v \in Values :
        /\ Finished(p, {"exchange", "consume"}, v)
        /\ atBegin[p] = "revoked" /\ res[p] = "invalid"

\* C10: no step deletes a row of login_tokens or changes the token, user_id
\* or expires_at of a row, and no step sets revoked from true to false.
C10_Step ==
    /\ Len(tokens') >= Len(tokens)
    /\ \A i \in TokIds :
          /\ tokens'[i].token = tokens[i].token
          /\ tokens'[i].user_id = tokens[i].user_id
          /\ tokens'[i].expires_at = tokens[i].expires_at
          /\ tokens[i].revoked => tokens'[i].revoked

C10_TokenRowsMonotone == [][C10_Step]_vars

\* rows were revoked by a rotation and by an exchange or consume, and a row
\* was inserted after a revocation
C10_Witness ==
    /\ \E i \in TokIds : tokens[i].revoked /\ revokedBy[i] = "rotate"
    /\ \E i \in TokIds : tokens[i].revoked /\ revokedBy[i] \in {"exchange", "consume"}
    /\ Len(tokens) >= 3

\* tokens that earlier CreateOrRotateLoginToken calls returned for p's user
EarlierRotated(p) ==
    {i \in TokIds : tokens[i].user_id = uid[p] /\ mintedFrom[i] = NoTok}

\* a CreateOrRotateLoginToken that overlapped no call on its user commits
Sequential(p) ==
    pc[p] = "r_commit" /\ pc'[p] = "done" /\ res'[p] = "ok" /\ ~overlap[p]

\* the token the call returns is the user's active one
ReturnsActive(p) ==
    /\ tokens'[retTok'[p]].user_id = uid[p]
    /\ ~tokens'[retTok'[p]].revoked
    /\ tokens'[retTok'[p]].expires_at > txnow[p]
    /\ Cardinality(UserRowsOf(op[p].ident)) = 1

C14_Users == \A d \in Idents : Cardinality(UserRowsOf(d)) <= 1

\* C14 as stated: no discord_user_id has two rows of users, and when a
\* CreateOrRotateLoginToken call that follows earlier ones for the same
\* identity commits, the tokens of the earlier calls are revoked and its own
\* token is the active one.
C14_RotateTwiceRevokesFirst ==
    /\ []C14_Users
    /\ [][\A p \in Procs :
            Sequential(p) => /\ \A i \in EarlierRotated(p) : tokens'[i].revoked
                             /\ ReturnsActive(p)]_vars

\* C14, amended: no discord_user_id has two rows of users, and when a
\* CreateOrRotateLoginToken call that follows earlier ones for the same
\* identity commits, each token of the earlier calls is revoked or was
\* already past its expiry at the call's now(), and its own token is the
\* active one.
C14_RotateTwiceRetiresFirst ==
    /\ []C14_Users
    /\ [][\A p \in Procs :
            Sequential(p) => /\ \A i \in EarlierRotated(p) :
                                   \/ tokens'[i].revoked
                                   \/ tokens[i].expires_at <= txnow[p]
                             /\ ReturnsActive(p)]_vars

\* a second call for an identity, with the display name the row carries,
\* ran after the first: one row of users, the first token revoked by the
\* rotation, the second token not revoked
C14_Witness ==
    \E p \in Procs :
        /\ pc[p] = "done" /\ op[p].kind = "rotate" /\ res[p] = "ok"
        /\ ~overlap[p]
        /\ Cardinality(UserRowsOf(op[p].ident)) = 1
        /\ users[uid[p]].discord_username = op[p].name
        /\ ~tokens[retTok[p]].revoked
        /\ \E i \in TokIds \ {retTok[p]} :
              /\ tokens[i].user_id = uid[p]
              /\ mintedFrom[i] = NoTok
              /\ revokedBy[i] = "rotate"

\* the call has locked the presented rows and its UPDATE ... SET revoked =
\* true is pending: the replacement insert, the user read or the commit
\* is next
PastRevoke(p) ==
    /\ op[p].kind \in {"exchange", "consume"}
    /\ pc[p] \in {"x_insert", "x_user", "x_commit", "c_user", "c_commit"}

FailsNow(p) == InFlight(p) /\ pc'[p] = "done" /\ res'[p] = "error"

\* C17: the step in which ExchangeToken or ConsumeToken fails after it
\* locked and revoked the presented token leaves login_tokens and users as
\* they were committed: the presented rows are not revoked and are locked by
\* nobody, no row was inserted, no replacement of the value exists, and a
\* call that begins before the expiry of the rows finds the value active
C17_Step(p) ==
    PastRevoke(p) /\ FailsNow(p) =>
        /\ rev[p] = RowsOf(op[p].tok) /\ rev[p] # {}
        /\ tokens' = tokens /\ users' = users
        /\ \A i \in rev[p] :
              /\ ~tokens'[i].revoked
              /\ \A q \in Procs : i \notin held'[q]
              /\ \A now \in 0..MaxClock :
                    now < tokens'[i].expires_at =>
                        IsActive(tokens'[i], now) /\ i \in TokIds'
        /\ ins'[p] = NoIns /\ rev'[p] = {}
        /\ Replacements(op[p].tok)' = {}
        /\ exOk'[op[p].tok] = 0 /\ coOk'[op[p].tok] = 0

\* a call that failed after its revocation has changed nothing: a row of
\* the value it presented is revoked only by a call that committed
C17_Inv ==
    \A p \in Procs :
        /\ pc[p] = "done" /\ res[p] = "error" /\ undone[p]
        /\ op[p].kind \in {"exchange", "consume"}
        => /\ ~wrote[p]
           /\ retTok[p] = 0
           /\ \A i \in RowsOf(op[p].tok) :
                 tokens[i].revoked => revokedBy[i] # "none"

C17_FailureRollsBack == [][\A p \in Procs : C17_Step(p)]_vars /\ []C17_Inv

\* ExchangeToken failed after its revocation, and a later ExchangeToken of
\* the same value, begun before the expiry, returned success with a
\* replacement
C17_Witness ==
    \E p, q \in Procs : \E v \in Values :
        /\ Finished(p, {"exchange"}, v) /\ res[p] = "error" /\ undone[p]
        /\ Finished(q, {"exchange"}, v) /\ res[q] = "ok"
        /\ Cardinality(Replacements(v)) = 1
        /\ \A i \in RowsOf(v) : revokedBy[i] = "exchange"

\* ------------------------------------------------- claims on the handlers
\* a text of decimal digits, with or without a sign in front
Numeric(t) ==
    LET ds == IF t # <<>> /\ t[1] \in {"+", "-"} THEN Tail(t) ELSE t
    IN  /\ ds # <<>>
        /\ \A i \in DOMAIN ds :
              ds[i] \in {"0", "1", "2", "3", "4", "5", "6", "7", "8", "9"}

\* the POST request fails the validation of its route
FailsValidation(r) ==
    /\ r.method = "POST"
    /\ \/ /\ r.route = "/submit-application"
          /\ r.age \notin 0..120 \/ r.minecraft_username = ""
       \/ /\ r.route = "/create-login-token"
          /\ r.discord_id = <<>> \/ ~Numeric(r.discord_id) \/ r.username = ""

\* the step accepts a request, and it is p that serves it
Serves(p) ==
    /\ requests' = requests + 1
    /\ \A q \in Procs \ {p} : req'[q] = req[q] /\ http'[q] = http[q]

\* C15: the step in which a handler takes a request that fails validation
\* answers 400 and calls nothing: no transaction begins, no row of users,
\* login_tokens or applications changes, and every token value is in the
\* state it was in (an active token stays active)
C15_Step(p) ==
    Serves(p) /\ FailsValidation(req'[p]) =>
        /\ http'[p] = 400
        /\ UNCHANGED <<users, tokens, apps, pc, op, res, txnow, held, rev,
                       ins, ukey, akey, calls, exOk, coOk, revokedBy>>
        /\ \A v \in Values : StateOf(v, clock)' = StateOf(v, clock)

\* a request that fails validation has the answer 400 and no call of the
\* store runs or has run for it; a decoded request on the two routes that
\* passes validation is not answered 400
C15_Inv ==
    \A p \in Procs :
        /\ FailsValidation(req[p]) =>
              /\ http[p] = 400
              /\ ~InFlight(p)
        /\ InFlight(p) => http[p] = 0 /\ ~FailsValidation(req[p])
        /\ /\ http[p] = 400 /\ req[p].body = "object"
           /\ req[p].route \in {"/submit-application", "/create-login-token"}
           => FailsValidation(req[p])

C15_ValidationBeforeStore ==
    [][\A p \in Procs : C15_Step(p)]_vars /\ []C15_Inv

\* /submit-application was refused for an age above 120 while the token it
\* presented was active, and the token is active still; /create-login-token
\* was refused for a discord_id that is not a number, and no user was made
\* for it
C15_Witness ==
    \E p, q \in Procs :
        /\ req[p].route = "/submit-application" /\ req[p].body = "object"
        /\ req[p].age > 120 /\ req[p].minecraft_username # ""
        /\ http[p] = 400
        /\ req[p].token \in Values
        /\ StateOf(req[p].token, clock) = "active"
        /\ coOk[req[p].token] = 0
        /\ req[q].route = "/create-login-token" /\ req[q].body = "object"
        /\ req[q].discord_id # <<>> /\ ~Numeric(req[q].discord_id)
        /\ req[q].username # ""
        /\ http[q] = 400
        /\ Len(users) = 1

\* p runs ExchangeToken or ConsumeToken
TokenCall(p) == op[p].kind \in {"exchange", "consume"}

\* the operation p runs is at its lookup, the SELECT ... FOR UPDATE
AtLookup(p) == pc[p] \in {"x_select", "c_select"}

\* C22, the operations: the step in which ExchangeToken or ConsumeToken
\* returns ErrInvalidOrExpiredToken is its lookup, and the lookup found no
\* row of the presented value with revoked = false and expires_at > now();
\* a lookup that finds such a row does not return it, and a lookup that
\* finds none goes no further
C22_Operation(p) ==
    TokenCall(p) /\ InFlight(p) /\ pc'[p] # pc[p] =>
        /\ res'[p] = "invalid" =>
              /\ AtLookup(p)
              /\ Matching(op[p].tok, txnow[p]) = {}
              /\ pc'[p] = "done"
        /\ AtLookup(p) /\ Matching(op[p].tok, txnow[p]) # {} =>
              res'[p] # "invalid"
        /\ AtLookup(p) /\ Matching(op[p].tok, txnow[p]) = {} =>
              pc'[p] = "done" /\ res'[p] \in {"invalid", "error"}

\* C22, the handlers: the step in which a handler answers the result of an
\* operation answers 401 exactly for ErrInvalidOrExpiredToken, 500 exactly
\* for another error, and 200 for success only
C22_Handler(p) ==
    http[p] = 0 /\ http'[p] # 0 /\ req'[p] = req[p] =>
        /\ http'[p] = 401 <=> res[p] = "invalid"
        /\ http'[p] = 500 <=> res[p] = "error"
        /\ http'[p] = 200 => res[p] = "ok"
        /\ http'[p] \in {200, 401, 500}

C22_InvalidTokenOnly ==
    [][\A p \in Procs : C22_Operation(p) /\ C22_Handler(p)]_vars

\* one request was answered 401 for a value the lookup did not find, and
\* another, whose token was active when its transaction began, was answered
\* 500 for a failure of the store
C22_Witness ==
    \E p, q \in Procs :
        /\ http[p] = 401 /\ res[p] = "invalid" /\ TokenCall(p)
        /\ pc[p] = "done"
        /\ http[q] = 500 /\ res[q] = "error" /\ TokenCall(q)
        /\ pc[q] = "done" /\ atBegin[q] = "active"

\* ------------------------------------------- claims on the rows changed

\* the row after differs from the row r at most by revoked having become true
SameOrRevoked(r, after) ==
    after = r \/ after = [r EXCEPT !.revoked = TRUE]

\* C27, ExchangeToken and ConsumeToken: a step of the call changes no
\* existing row of another value than the presented one, and changes a row
\* of the presented value by revoking it at most
C27_TokenFrame(p) ==
    TokenCall(p) /\ InFlight(p) /\ pc'[p] # pc[p] =>
        /\ Len(tokens') >= Len(tokens)
        /\ \A i \in TokIds :
              IF tokens[i].token = op[p].tok
              THEN SameOrRevoked(tokens[i], tokens'[i])
              ELSE tokens'[i] = tokens[i]

\* C27, CreateOrRotateLoginToken: a step of the call changes no existing
\* row of another user, none that is revoked already and none that had
\* expired when its transaction began, and changes a row by revoking it at
\* most
C27_RotateFrame(p) ==
    op[p].kind = "rotate" /\ InFlight(p) /\ pc'[p] # pc[p] =>
        /\ Len(tokens') >= Len(tokens)
        /\ \A i \in TokIds :
              /\ SameOrRevoked(tokens[i], tokens'[i])
              /\ tokens[i].user_id # uid[p] => tokens'[i] = tokens[i]
              /\ tokens[i].revoked => tokens'[i] = tokens[i]
              /\ tokens[i].expires_at <= txnow[p] => tokens'[i] = tokens[i]

\* C27: token operations change only the rows they are about
C27_OnlyOwnRows ==
    [][\A p \in Procs : C27_TokenFrame(p) /\ C27_RotateFrame(p)]_vars

\* two users hold a token each, issued by two rotations; the token of one
\* was then spent, by ExchangeToken or ConsumeToken, and the token of the
\* other is still as it was issued
C27_Witness ==
    \E i, j \in TokIds :
        /\ tokens[i].user_id # tokens[j].user_id
        /\ mintedFrom[i] = NoTok /\ mintedFrom[j] = NoTok
        /\ tokens[i].revoked /\ revokedBy[i] \in {"exchange", "consume"}
        /\ ~tokens[j].revoked /\ revokedBy[j] = "none"
        /\ \A p \in Procs : ~InFlight(p)

\* ------------------------------------- claims on /submit-application

\* the handler goroutine p serves a /submit-application request
Submitting(p) == req[p].route = "/submit-application" /\ http[p] = 0

\* successful ConsumeToken calls on the value v
Consumed(v) == IF v \in 1..MaxTokens THEN coOk[v] ELSE 0

\* C25, the counts: a token value leads to at most one UpdateUserProfile
\* and at most one CreateOrUpdateApplication, the former only after a
\* ConsumeToken on that value succeeded, the latter only after the former
C25_AtMostOnce ==
    \A v \in 0..MaxTokens :
        /\ authorized[v].profile <= Consumed(v)
        /\ authorized[v].profile <= 1
        /\ authorized[v].apply <= authorized[v].profile

\* C25, the order within a request: the handler calls UpdateUserProfile
\* only in the step after its own ConsumeToken, on the token of the request,
\* returned success, and CreateOrUpdateApplication only in the step after
\* its own UpdateUserProfile returned success; and a step of a handler that
\* serves /submit-application changes users or applications only within
\* one of these two calls
C25_Order(p) ==
    /\ op'[p].kind = "profile" /\ pc'[p] = "pf_begin" /\ pc[p] # "pf_begin" =>
          /\ Submitting(p) /\ req'[p] = req[p]
          /\ op[p].kind = "consume" /\ pc[p] = "done" /\ res[p] = "ok"
          /\ op[p].tok = req[p].token
    /\ op'[p].kind = "apply" /\ op[p].kind # "apply" =>
          /\ Submitting(p) /\ req'[p] = req[p]
          /\ op[p].kind = "profile" /\ pc[p] = "done" /\ res[p] = "ok"
          /\ authorized[req[p].token].profile = 1
    /\ Submitting(p) /\ pc'[p] # pc[p]
          /\ (users' # users \/ apps' # apps) =>
             /\ op[p].kind \in {"profile", "apply"}
             /\ Consumed(req[p].token) = 1

\* C25: in /submit-application nothing is written unless ConsumeToken
\* succeeded earlier in the same request, so each token value authorizes at
\* most one profile update and one application upsert, and a request whose
\* token is invalid changes neither the user nor the application
C25_ConsumeGuardsWrites ==
    []C25_AtMostOnce /\ [][\A p \in Procs : C25_Order(p)]_vars

\* two requests presented the same token, active when each ConsumeToken
\* began, and ran at the same time: one was answered 401 having called
\* ConsumeToken only, the other was answered 200, and the token led to one
\* profile update and one application upsert
C25_Witness ==
    \E p, q \in Procs :
        /\ p # q
        /\ req[p].route = "/submit-application"
        /\ req[q].route = "/submit-application"
        /\ req[p].token = req[q].token /\ req[p].token # NoTok
        /\ http[p] = 401 /\ op[p].kind = "consume"
        /\ atBegin[p] = "active" /\ overlap[p]
        /\ http[q] = 200
        /\ authorized[req[q].token] = [profile |-> 1, apply |-> 1]

\* the call of UpdateUserProfile or CreateOrUpdateApplication that the
\* handler p made after its ConsumeToken succeeded has failed
FailedAfterConsume(p) ==
    /\ req[p].route = "/submit-application"
    /\ op[p].kind \in {"profile", "apply"}
    /\ pc[p] = "done" /\ res[p] = "error"

\* C26, the token: a token that led to an UpdateUserProfile is revoked, and
\* stays so whatever becomes of that call and of the one after it
C26_StaysRevoked ==
    \A v \in 1..MaxTokens :
        authorized[v].profile >= 1 =>
            /\ RowsOf(v) # {}
            /\ \A i \in RowsOf(v) : tokens[i].revoked

\* C26, the steps: the step in which UpdateUserProfile or
\* CreateOrUpdateApplication fails changes no token row, and that of
\* CreateOrUpdateApplication changes no user either, like every step of
\* that call; the handler then answers 500 and changes nothing; and a
\* request that presents a token which has already led to a profile update
\* is answered 401, or 500 when its own ConsumeToken failed in the store
C26_Steps(p) ==
    /\ InFlight(p) /\ op[p].kind \in {"profile", "apply"}
          /\ pc'[p] = "done" /\ res'[p] = "error" =>
             /\ tokens' = tokens
             /\ \A i \in RowsOf(req[p].token) : tokens'[i].revoked
    /\ op[p].kind = "apply" /\ pc'[p] # pc[p] => users' = users
    /\ FailedAfterConsume(p) /\ http[p] = 0 /\ http'[p] # 0 =>
          /\ http'[p] = 500
          /\ tokens' = tokens /\ users' = users /\ apps' = apps
    /\ Submitting(p) /\ op[p].kind = "consume" /\ http'[p] # 0
          /\ authorized[req[p].token].profile >= 1 =>
             \/ http'[p] = 401 /\ res[p] = "invalid"
             \/ http'[p] = 500 /\ res[p] = "error"

\* C26: the consumption of the token is committed before the later writes
\* and independently of them
C26_ConsumeCommitsAlone ==
    []C26_StaysRevoked /\ [][\A p \in Procs : C26_Steps(p)]_vars

\* a request was answered 500 because its CreateOrUpdateApplication failed:
\* no application exists, the user holds the age and the minecraft name of
\* the request, the token is revoked, and the same request, sent again
\* after that, was answered 401
C26_Witness ==
    \E p, q \in Procs :
        /\ p # q
        /\ FailedAfterConsume(q) /\ op[q].kind = "apply" /\ http[q] = 500
        /\ apps = <<>>
        /\ submitter[q].id \in UserIds
        /\ users[submitter[q].id].age = req[q].age
        /\ users[submitter[q].id].minecraft_name = req[q].minecraft_username
        /\ \A i \in RowsOf(req[q].token) : tokens[i].revoked
        /\ req[p] = req[q] /\ http[p] = 401
        /\ op[p].kind = "consume" /\ atBegin[p] = "revoked"

\* ------------------------------------------------ claims on UpsertUser

\* the users table after UpsertUser(d, n, mc, age) found the row of d
Upserted(d, n, mc, age) == UpsertRows("update", d, n, mc, age)

\* C24, the statement: on every users table the program reaches, and for
\* every argument, UpsertUser on an existing user sets the display name to
\* the new one, keeps the stored minecraft name when it is given none and
\* the stored age when it is given none, and changes no other row
C24_Merge ==
    \A d \in Idents, n \in Names, mc \in {NULL, "steve", "alex"},
       age \in {NoAge, 0, 17} :
        /\ Len(Upserted(d, n, mc, age)) = Len(users)
        /\ \A i \in UserIds :
              IF i \in UserRowsOf(d)
              THEN /\ Upserted(d, n, mc, age)[i].discord_username = n
                   /\ Upserted(d, n, mc, age)[i].discord_user_id = d
                   /\ mc = NULL =>
                        Upserted(d, n, mc, age)[i].minecraft_name
                            = users[i].minecraft_name
                   /\ age = NoAge =>
                        Upserted(d, n, mc, age)[i].age = users[i].age
              ELSE Upserted(d, n, mc, age)[i] = users[i]

\* C24, the caller: no step of a CreateOrRotateLoginToken changes the age
\* or the minecraft name of a user, and the step in which its UpsertUser
\* commits on an existing user stores the display name it was given and
\* returns the row with the stored age and minecraft name
C24_Rotate(p) ==
    op[p].kind = "rotate" /\ InFlight(p) /\ pc'[p] # pc[p] =>
        /\ \A i \in UserIds :
              /\ users'[i].age = users[i].age
              /\ users'[i].minecraft_name = users[i].minecraft_name
        /\ pc[p] = "u_commit" /\ pc'[p] = "r_begin"
              /\ ukey[p].how = "update" =>
                 \A i \in UserRowsOf(op[p].ident) :
                    /\ users'[i].discord_username = op[p].name
                    /\ retUser'[p].id = i
                    /\ retUser'[p].age = users[i].age
                    /\ retUser'[p].minecraft_name = users[i].minecraft_name

\* C24: UpsertUser merges by discord_user_id, and CreateOrRotateLoginToken,
\* which passes no age and no minecraft name, never clears or changes them
C24_UpsertMerges ==
    []C24_Merge /\ [][\A p \in Procs : C24_Rotate(p)]_vars

\* a CreateOrRotateLoginToken for a user whose profile was submitted has
\* returned: its UpsertUser returned the stored age and minecraft name, and
\* the row still holds them
C24_Witness ==
    \E p \in Procs :
        /\ op[p].kind = "rotate" /\ pc[p] = "done" /\ res[p] = "ok"
        /\ retUser[p].id \in UserIds
        /\ retUser[p].age # NoAge
        /\ retUser[p].minecraft_name # NULL
        /\ users[retUser[p].id].age = retUser[p].age
        /\ users[retUser[p].id].minecraft_name = retUser[p].minecraft_name

\* ----------------------------------------- claims on two different tokens

\* p and q run ExchangeToken or ConsumeToken on two different values
TwoValues(p, q) ==
    /\ p # q /\ TokenCall(p) /\ TokenCall(q)
    /\ op[p].tok # op[q].tok

\* no row of the value v was revoked by an ExchangeToken or a ConsumeToken
NotSpent(v) ==
    \A i \in RowsOf(v) : revokedBy[i] \notin {"exchange", "consume"}

\* C23, no interference: a call that presents one value holds no lock on a
\* row of another value, so that two calls on different values never wait
\* for each other, and it revokes no row of another value, so that a call
\* whose token was active when its transaction began is told
\* ErrInvalidOrExpiredToken only when a rotation of its user revoked the
\* token meanwhile, never because of the call on the other value
C23_NoInterference ==
    /\ \A p \in Procs : TokenCall(p) =>
          held[p] \subseteq RowsOf(op[p].tok)
    /\ \A p, q \in Procs : TwoValues(p, q) /\ InFlight(p) /\ InFlight(q) =>
          held[q] \cap RowsOf(op[p].tok) = {}
    /\ \A p \in Procs :
          TokenCall(p) /\ pc[p] = "done" /\ atBegin[p] = "active"
              /\ res[p] = "invalid" =>
                 /\ NotSpent(op[p].tok)
                 /\ \E i \in RowsOf(op[p].tok) : revokedBy[i] = "rotate"

\* C23: ExchangeToken or ConsumeToken calls on two different active values
\* that run at the same time do not interfere, and each of them returns
\* whatever the interleaving; each succeeds unless a statement of its own
\* failed or a rotation revoked its token
C23_DifferentTokensBothSucceed ==
    /\ []C23_NoInterference
    /\ \A p \in Procs :
          (TokenCall(p) /\ InFlight(p)) ~> (pc[p] = "done")
    /\ \A p \in Procs :
          (TokenCall(p) /\ InFlight(p) /\ atBegin[p] = "active")
              ~> (pc[p] = "done" /\
                    \/ res[p] \in {"ok", "error"}
                    \/ \E i \in RowsOf(op[p].tok) : revokedBy[i] = "rotate")

\* the two calls, on two different values that were active when they began,
\* have both revoked their row and hold it at the same time, the first has
\* returned with success and the second is about to
C23_Witness ==
    \E p, q \in Procs :
        /\ TwoValues(p, q)
        /\ atBegin[p] = "active" /\ atBegin[q] = "active"
        /\ pc[p] = "done" /\ res[p] = "ok"
        /\ pc[q] \in {"x_commit", "c_commit"} /\ held[q] # {}
        /\ \A i \in RowsOf(op[p].tok) \cup RowsOf(op[q].tok) :
              revokedBy[i] \in {"exchange", "consume"} \/ i \in held[q]

\* ------------------------------------------------- claims on the listener
\* decodable notifications that have reached the listening connection
ArrivedValid == Len(SelectSeq(received \o queue, Decodes))

\* the goroutine has left the loop
LoopLeft == lpc \in {"g_listen_err", "g_unlisten", "g_release",
                     "g_close_errs", "g_close_events", "g_exit"}

\* C11: a notification whose payload fails to decode is put on errs and the
\* loop goes on; every decodable notification that reaches the connection is
\* eventually received by the consumer from events, as long as the consumer
\* receives from events, the context is not cancelled and the connection is
\* not lost.  Nothing is assumed about the consumer receiving from errs.
C11_DecodeErrorKeepsSubscription ==
    /\ [][lpc = "g_decode_err" /\ lpc' # lpc
            => lpc' = "g_top" /\ errs' = Append(errs, "decode")]_vars
    /\ \A n \in 1..MaxNotifs :
          (ArrivedValid >= n)
            ~> (Len(delivered) >= n \/ ~rxEvents \/ ctxDone \/ LoopLeft)

\* C12: once ctx is cancelled, the goroutine that ListenAppEvents started
\* eventually has issued UNLISTEN, released the connection and closed both
\* channels, whatever the consumer does.
C12_CancelStopsListener ==
    (ctxDone /\ lret = "channels")
      ~> (lpc = "g_exit" /\ ~listening /\ releases = 1
          /\ errsClosed /\ eventsClosed)
\* C18: the connection ListenAppEvents acquired is released exactly once on
\* every way out.  A call that fails at Acquire holds no connection; a call
\* that fails at LISTEN has released it and has returned the error alone, no
\* channels, no goroutine; a goroutine past its deferred cleanup has
\* released it.  Release never runs twice and raw is never used after it.
C18_ReleasedExactlyOnce ==
    /\ releases <= 1
    /\ ~misuse
    /\ (conn = "released") <=> (releases = 1)
    /\ lpc = "l_failed" => conn # "held"
    /\ (lret = "error") <=> (lpc = "l_failed")
    /\ lret = "error" => /\ errs = <<>> /\ ~errsClosed /\ ~eventsClosed
                         /\ received = <<>> /\ ~listening
    /\ lpc \in {"g_close_errs", "g_close_events", "g_exit"} => releases = 1
    /\ lpc \in {"g_top", "g_wait", "g_event", "g_decode_err", "g_listen_err",
                "g_unlisten", "g_release"} => conn = "held"

\* LISTEN failed after the connection was acquired, and it was released
C18_Witness ==
    lpc = "l_failed" /\ conn = "released" /\ releases = 1

\* C19: when WaitForNotification fails with an error that is neither a
\* timeout nor a cancellation, the goroutine eventually ends, whatever errs
\* holds at that moment; and a consumer that observes errs closed has
\* received that error before.
C19_TransportErrorEndsLoop ==
    /\ (lpc = "g_listen_err") ~> (lpc = "g_exit")
    /\ [](cause = "error" /\ sawErrsClosed
            => \E k \in 1..Len(taken) : taken[k] = "listen")

\* the channel the loop body sends the k-th notification's outcome on
Expected(k) == IF Decodes(received[k]) THEN "events" ELSE "errs"

\* emissions on channel ch
Emitted(ch) == SelectSeq(emitted, LAMBDA e : e.ch = ch)

\* C20: the k-th completed send of the loop body is the outcome of the k-th
\* notification received: the decoded event on events, or a decode error on
\* errs.  No notification is emitted twice or on both channels, none is
\* skipped once the loop has moved on, and the consumer receives the events
\* in the order of the notifications.
C20_OneEmissionInOrder ==
    /\ Len(emitted) <= Len(received)
    /\ Len(received) - Len(emitted) <= 1
    /\ lpc \in {"g_top", "g_wait"} => Len(emitted) = Len(received)
    /\ \A k \in 1..Len(emitted) : emitted[k] = [ch |-> Expected(k), of |-> k]
    /\ Len(delivered) = Len(Emitted("events"))
    /\ \A j \in 1..Len(delivered) :
          delivered[j] = Unmarshal(received[Emitted("events")[j].of])
    /\ Len(SelectSeq(taken \o errs, LAMBDA e : e = "decode"))
         = Len(Emitted("errs"))

\* two different events were delivered around a payload that did not decode
C20_Witness ==
    /\ Len(received) = 3
    /\ Decodes(received[1]) /\ ~Decodes(received[2]) /\ Decodes(received[3])
    /\ received[1] # received[3]
    /\ Len(delivered) = 2
    /\ taken = <<"decode">>
\* the step in which a bounded wait elapses: the goroutine leaves the wait
\* without a notification, and neither for a cancellation nor for an error
WaitElapses ==
    /\ lpc = "g_wait" /\ lpc' # lpc
    /\ received' = received
    /\ cause' = cause

\* the loop has sent the outcome of the n-th notification on events
Forwarded(n) == \E j \in 1..Len(emitted) : emitted[j] = [ch |-> "events", of |-> n]

\* C21: the step in which the bounded wait elapses sends nothing, closes
\* nothing, keeps the connection and the subscription and takes the loop
\* back to its top; and a decodable notification that is next in line while
\* the loop is at its top or waits, after however many elapsed waits, is
\* eventually forwarded on events, unless the context is cancelled, the
\* connection is lost or the consumer stops receiving from events.
C21_TimeoutKeepsSubscription ==
    /\ [][WaitElapses =>
            /\ lpc' = "g_top"
            /\ conn = "held" /\ listening
            /\ UNCHANGED <<conn, listening, queue, notif, errs, errsClosed,
                           eventsClosed, emitted, delivered, taken,
                           releases, lret, ctxDone>>]_vars
    /\ \A n \in 1..MaxNotifs :
          (/\ lpc \in {"g_top", "g_wait"}
           /\ Len(received) = n - 1
           /\ queue # <<>> /\ Decodes(Head(queue)))
            ~> (Forwarded(n) \/ ~rxEvents \/ ctxDone \/ LoopLeft)

\* the wait elapsed MaxLapses times before the first notification came; it
\* was forwarded to the consumer, and nothing was sent on errs or closed
C21_Witness ==
    /\ lapses = MaxLapses
    /\ Forwarded(1)
    /\ Len(delivered) >= 1 /\ delivered[1] = Unmarshal(received[1])
    /\ conn = "held" /\ listening
    /\ errs = <<>> /\ taken = <<>> /\ ~errsClosed /\ ~eventsClosed

\* C28: the deferred cleanup of the goroutine runs in one order: UNLISTEN
\* and conn.Release(), then close(errs), then close(events).  The connection
\* is released while the session no longer listens and no channel is closed;
\* errs is closed after the release and before events; so a closed channel
\* means a released connection, and closed events mean closed errs.
C28_CleanupOrder ==
    /\ [][/\ (conn' = "released" /\ conn = "held" /\ lret = "channels")
               => ~listening /\ ~errsClosed /\ ~eventsClosed
          /\ (errsClosed' /\ ~errsClosed)
               => conn = "released" /\ ~listening /\ ~eventsClosed
          /\ (eventsClosed' /\ ~eventsClosed)
               => errsClosed /\ conn = "released"]_vars
    /\ [](errsClosed \/ eventsClosed \/ sawErrsClosed
            => conn = "released" /\ releases = 1 /\ ~listening)
    /\ [](eventsClosed => errsClosed)
    /\ [](sawErrsClosed => errsClosed)

\* the goroutine is over and the consumer has observed errs closed
C28_Witness ==
    /\ lpc = "g_exit"
    /\ eventsClosed /\ errsClosed /\ sawErrsClosed
    /\ conn = "released" /\ ~listening

\* ------------------------------------------------ claims on applications
\* the row CreateOrUpdateApplication(arg[p]) stores
Submitted(p) ==
    [user_id |-> arg[p].user_id, answers |-> Answers(arg[p].answers),
     status |-> arg[p].status]

\* a CreateOrUpdateApplication call commits in this step
C16_Step(p) ==
    (pc[p] = "a_commit" /\ pc'[p] = "done" /\ res'[p] = "ok")
    => LET rows == AppRowsOf(arg[p].user_id)
       IN  /\ rows # {} =>
                 /\ Len(apps') = Len(apps)
                 /\ \A i \in rows : apps'[i] = Submitted(p)
                 /\ retApp'[p].id \in rows
           /\ rows = {} =>
                 /\ Len(apps') = Len(apps) + 1
                 /\ apps'[Len(apps')] = Submitted(p)
                 /\ retApp'[p].id = Len(apps')
           /\ \A i \in AppIds \ rows : apps'[i] = apps[i]

C16_Inv ==
    \A u \in UserIds : Cardinality(AppRowsOf(u)) <= 1

\* C16: every user has no or one row of applications.  A call of
\* CreateOrUpdateApplication for a user who has a row adds no row: it leaves
\* the row under its id and replaces answers and status by the submitted
\* ones; for a user without a row it inserts one.  Rows of other users stay
\* as they are.
C16_OneApplicationPerUser ==
    [][\A p \in Procs : C16_Step(p)]_vars /\ []C16_Inv

\* two calls for one user ran concurrently with different answers, both
\* returned the same row id, and the user has one row
C16_Witness ==
    \E p, q \in Procs :
        /\ p # q
        /\ pc[p] = "done" /\ op[p].kind = "apply" /\ res[p] = "ok"
        /\ pc[q] = "done" /\ op[q].kind = "apply" /\ res[q] = "ok"
        /\ overlap[p] /\ overlap[q]
        /\ arg[p].user_id = arg[q].user_id
        /\ arg[p].answers # arg[q].answers
        /\ retApp[p].id = retApp[q].id
        /\ Cardinality(AppRowsOf(arg[p].user_id)) = 1
\* ------------------------------------------------ claims on notification
\* completed sends of the loop body for the k-th notification sent
EmissionsOf(k) == {j \in 1..Len(emitted) : emitted[j].of = k}

\* the value the consumer received by the j-th completed send, a send on events
EventOf(j) ==
    delivered[Cardinality({i \in 1..j : emitted[i].ch = "events"})]

\* the goroutine has dealt with the k-th notification and is in its loop
MovedOn(k) ==
    \/ Len(received) > k
    \/ Len(received) = k /\ lpc \in {"g_top", "g_wait"}

====
